---- MODULE Spec2Model ----
(***************************************************************************)
(* Model of the CSV validator: the import pipeline and the report of      *)
(* csv_importer.py, and the schema flattening and the template of          *)
(* csv_template_generator.py.                                              *)
(*                                                                         *)
(* Python strings are modelled as sequences of one-character strings, so   *)
(* that lower(), strip(), split() and the substring test are computed and  *)
(* not assumed.                                                            *)
(***************************************************************************)
EXTENDS Integers, Sequences, FiniteSets, TLC

VARIABLES
    schemaDir,          \* SCHEMA_DIR: the files of the schema directory, in listing order
    source,             \* the tabular source file named by file_path
    op,                 \* which entry point was called: "import" or "template"
    schema_name,        \* the schema_name argument
    pc,                 \* position of the call
    available_schemas,  \* get_available_schemas(): sequence of [name, file]
    schema_path,        \* index into schemaDir of the resolved schema file (0: none)
    opened,             \* TRUE once read_csv_file has tried to open the source
    csv_data,           \* result of read_csv_file
    i,                  \* loop index of the row loop (0-based)
    transcoded,         \* number of calls of transform_flat_to_nested so far
    validated,          \* number of rows the validator has judged so far
    validation_results, \* the report under construction
    raised,             \* the exception that ended the call ("none" while it runs)
    message,            \* the message of the raised exception, as a token sequence
    flattened_schema,   \* _generate_csv_template: the flattened schema
    headers,            \* _generate_csv_template: the column headers
    sample_row,         \* _generate_csv_template: the sample row
    template,           \* the text returned by generate_template
    pv_value,           \* process_value: the value argument
    pv_key,             \* process_value: the key argument
    pv_result,          \* process_value: the returned value (NoResult before the call)
    loaded,             \* what load_schema returned on each of its calls, in call order
    report,             \* the lines returned by get_validation_report (NoReport before)
    tf_flat,            \* transform_flat_to_nested: the flat_dict argument
    tf_nested           \* transform_flat_to_nested: the returned nested dict

vars == << schemaDir, source, op, schema_name, pc, available_schemas, schema_path,
           opened, csv_data, i, transcoded, validated, validation_results,
           raised, message, flattened_schema, headers, sample_row, template,
           pv_value, pv_key, pv_result, loaded, report, tf_flat, tf_nested >>

pipeVars == << schemaDir, source, op, schema_name, pc, available_schemas, schema_path,
               opened, csv_data, i, transcoded, validated, validation_results,
               raised, message, flattened_schema, headers, sample_row, template,
               loaded, report >>

tplVars == << flattened_schema, headers, sample_row, template >>

pvVars == << pv_value, pv_key, pv_result >>

tfVars == << tf_flat, tf_nested >>

(***************************************************************************)
(* Bounds of the model.                                                    *)
(***************************************************************************)
MaxRows == 2    \* data lines of a tabular source
MaxLen == 3     \* length of the generated cell values given to process_value
MaxCols == 2    \* columns of a flat row given to transform_flat_to_nested
MaxProps == 2   \* properties of the root of a generated schema

(***************************************************************************)
(* Character-level string operations of Python.                            *)
(***************************************************************************)
\* str.lower() on one character
LowerChar(c) ==
    CASE c = "A" -> "a" [] c = "B" -> "b" [] c = "C" -> "c" [] c = "D" -> "d"
      [] c = "E" -> "e" [] c = "F" -> "f" [] c = "G" -> "g" [] c = "H" -> "h"
      [] c = "I" -> "i" [] c = "J" -> "j" [] c = "K" -> "k" [] c = "L" -> "l"
      [] c = "M" -> "m" [] c = "N" -> "n" [] c = "O" -> "o" [] c = "P" -> "p"
      [] c = "Q" -> "q" [] c = "R" -> "r" [] c = "S" -> "s" [] c = "T" -> "t"
      [] c = "U" -> "u" [] c = "V" -> "v" [] c = "W" -> "w" [] c = "X" -> "x"
      [] c = "Y" -> "y" [] c = "Z" -> "z"
      [] OTHER -> c

\* str.lower()
Lower(s) == [k \in 1..Len(s) |-> LowerChar(s[k])]

Whitespace == {" ", "\t"}

RECURSIVE LStrip(_)
LStrip(s) == IF s # <<>> /\ Head(s) \in Whitespace THEN LStrip(Tail(s)) ELSE s

RECURSIVE RStrip(_)
RStrip(s) ==
    IF s # <<>> /\ s[Len(s)] \in Whitespace THEN RStrip(SubSeq(s, 1, Len(s) - 1)) ELSE s

\* str.strip()
Strip(s) == RStrip(LStrip(s))

\* `c in s` for a one-character c
HasChar(s, c) == \E k \in 1..Len(s) : s[k] = c

\* `sub in s` for strings
Contains(s, sub) ==
    \E k \in 0..(Len(s) - Len(sub)) : SubSeq(s, k + 1, k + Len(sub)) = sub

\* index of the first occurrence of c in s, 0 when there is none
RECURSIVE FirstIndex(_, _, _)
FirstIndex(s, c, k) ==
    IF k > Len(s) THEN 0 ELSE IF s[k] = c THEN k ELSE FirstIndex(s, c, k + 1)

\* str.split(c): always at least one piece, empty pieces kept
RECURSIVE Split(_, _)
Split(s, c) ==
    LET k == FirstIndex(s, c, 1)
    IN  IF k = 0 THEN << s >>
        ELSE << SubSeq(s, 1, k - 1) >> \o Split(SubSeq(s, k + 1, Len(s)), c)

(***************************************************************************)
(* Python values returned by process_value.  One record shape for all      *)
(* kinds: b for bool, n for int, (n, e) for the float n * 10^e with n not  *)
(* divisible by 10, s for str, items for list.                             *)
(***************************************************************************)
Val(kind, b, n, e, s, items) ==
    [kind |-> kind, b |-> b, n |-> n, e |-> e, s |-> s, items |-> items]

NoneVal == Val("none", FALSE, 0, 0, <<>>, <<>>)
BoolVal(b) == Val("bool", b, 0, 0, <<>>, <<>>)
IntVal(n) == Val("int", FALSE, n, 0, <<>>, <<>>)
FloatVal(n, e) == Val("float", FALSE, n, e, <<>>, <<>>)
StrVal(s) == Val("str", FALSE, 0, 0, s, <<>>)
ListVal(items) == Val("list", FALSE, 0, 0, <<>>, items)
DictVal == Val("dict", FALSE, 0, 0, <<>>, <<>>)

(***************************************************************************)
(* int() and float() of Python on strings.                                 *)
(***************************************************************************)
Digits == {"0", "1", "2", "3", "4", "5", "6", "7", "8", "9"}

DigitVal(c) ==
    CASE c = "0" -> 0 [] c = "1" -> 1 [] c = "2" -> 2 [] c = "3" -> 3 [] c = "4" -> 4
      [] c = "5" -> 5 [] c = "6" -> 6 [] c = "7" -> 7 [] c = "8" -> 8 [] c = "9" -> 9

\* a digit string in which single underscores may separate digits
DigitsOK(s) ==
    /\ s # <<>>
    /\ \A k \in 1..Len(s) : s[k] \in Digits \cup {"_"}
    /\ s[1] \in Digits
    /\ s[Len(s)] \in Digits
    /\ \A k \in 1..(Len(s) - 1) : ~(s[k] = "_" /\ s[k + 1] = "_")

RECURSIVE DigitsVal(_, _)
DigitsVal(s, acc) ==
    IF s = <<>> THEN acc
    ELSE IF Head(s) = "_" THEN DigitsVal(Tail(s), acc)
    ELSE DigitsVal(Tail(s), 10 * acc + DigitVal(Head(s)))

\* number of digits of s, underscores not counted
DigitCount(s) == Cardinality({k \in 1..Len(s) : s[k] \in Digits})

Signed(s) == s # <<>> /\ Head(s) \in {"+", "-"}
Unsigned(s) == IF Signed(s) THEN Tail(s) ELSE s
SignOf(s) == IF s # <<>> /\ Head(s) = "-" THEN -1 ELSE 1

\* int(s): [ok |-> FALSE] stands for ValueError
IntOfStripped(t) ==
    IF DigitsOK(Unsigned(t)) THEN [ok |-> TRUE, n |-> SignOf(t) * DigitsVal(Unsigned(t), 0)]
    ELSE [ok |-> FALSE, n |-> 0]

IntParse(s) == IntOfStripped(Strip(s))

RECURSIVE Pow10(_)
Pow10(k) == IF k <= 0 THEN 1 ELSE 10 * Pow10(k - 1)

\* (n, e) with the trailing zeros of n moved into the exponent; zero is (0, 0)
RECURSIVE Normal(_, _)
Normal(n, e) ==
    IF n = 0 THEN << 0, 0 >>
    ELSE IF n % 10 = 0 THEN Normal(n \div 10, e + 1)
    ELSE << n, e >>

\* position of the exponent marker of a float literal, 0 when there is none
FirstOf(a, b) == IF a = 0 THEN b ELSE IF b = 0 THEN a ELSE IF a < b THEN a ELSE b
ExpIndex(u) == FirstOf(FirstIndex(u, "e", 1), FirstIndex(u, "E", 1))

\* the mantissa split on '.': digits on at least one side of at most one point
MantOK(parts) ==
    /\ Len(parts) <= 2
    /\ parts[1] = <<>> \/ DigitsOK(parts[1])
    /\ Len(parts) = 1 \/ parts[2] = <<>> \/ DigitsOK(parts[2])
    /\ ~(parts[1] = <<>> /\ (Len(parts) = 1 \/ parts[2] = <<>>))

FloatNormal(nrm) == [ok |-> TRUE, n |-> nrm[1], e |-> nrm[2]]

FloatValue(sign, ip, fp, exVal) ==
    FloatNormal(Normal(sign * (DigitsVal(ip, 0) * Pow10(DigitCount(fp)) + DigitsVal(fp, 0)),
                       exVal - DigitCount(fp)))

FloatOfParts(sign, parts, ex, x) ==
    IF MantOK(parts) /\ (x = 0 \/ DigitsOK(Unsigned(ex)))
    THEN FloatValue(sign, parts[1], IF Len(parts) > 1 THEN parts[2] ELSE <<>>,
                    IF x = 0 THEN 0 ELSE SignOf(ex) * DigitsVal(Unsigned(ex), 0))
    ELSE [ok |-> FALSE, n |-> 0, e |-> 0]

FloatAt(sign, u, x) ==
    FloatOfParts(sign, Split(IF x = 0 THEN u ELSE SubSeq(u, 1, x - 1), "."),
                 IF x = 0 THEN <<>> ELSE SubSeq(u, x + 1, Len(u)), x)

FloatOfStripped(t) == FloatAt(SignOf(t), Unsigned(t), ExpIndex(Unsigned(t)))

\* float(s) for a string that holds a '.' (inf and nan hold none):
\* [ok |-> FALSE] stands for ValueError
FloatParse(s) == FloatOfStripped(Strip(s))

(***************************************************************************)
(* process_value                                                           *)
(***************************************************************************)
TrueTokens == { <<"t", "r", "u", "e">>, <<"y", "e", "s">>, <<"1">> }
FalseTokens == { <<"f", "a", "l", "s", "e">>, <<"n", "o">>, <<"0">> }

list_field_indicators ==
    { <<"t", "a", "g", "s">>, <<"f", "e", "a", "t", "u", "r", "e", "s">>,
      <<"n", "a", "m", "e", "s">>, <<"i", "d", "s">> }

is_list_field(key) == \E ind \in list_field_indicators : Contains(Lower(key), ind)

\* Unquote with the test of the closing quote forgotten
UnquoteOpenOnly(value) ==
    IF value # <<>> /\ Head(value) = "\""
    THEN SubSeq(value, 2, Len(value) - 1)
    ELSE value

\* value[1:-1] when the value starts and ends with a double quote
Unquote(value) ==
    IF value # <<>> /\ Head(value) = "\"" /\ value[Len(value)] = "\""
    THEN SubSeq(value, 2, Len(value) - 1)
    ELSE value

\* [item.strip() for item in pieces]
StripAll(pieces) == [k \in 1..Len(pieces) |-> Strip(pieces[k])]

SplitList(value) == StripAll(Split(Unquote(value), ","))

\* the try block: the parsed number, or the string on ValueError
FloatOrStr(value, f) == IF f.ok THEN FloatVal(f.n, f.e) ELSE StrVal(value)
IntOrStr(value, n) == IF n.ok THEN IntVal(n.n) ELSE StrVal(value)

\* the try block with the test for '.' forgotten: int() is tried on every value
NumericIntOnly(value) == IntOrStr(value, IntParse(value))

Numeric(value) ==
    IF HasChar(value, ".") THEN FloatOrStr(value, FloatParse(value))
    ELSE IntOrStr(value, IntParse(value))

\* process_value with the numeric conversion tried before the boolean tokens
process_valueNumericFirst(value, key) ==
    IF value = <<>> THEN NoneVal
    ELSE IF Numeric(value).kind # "str" THEN Numeric(value)
    ELSE IF Lower(value) \in TrueTokens THEN BoolVal(TRUE)
    ELSE IF Lower(value) \in FalseTokens THEN BoolVal(FALSE)
    ELSE IF HasChar(value, ",") /\ is_list_field(key) THEN ListVal(SplitList(value))
    ELSE Numeric(value)

\* lines 96-125
process_value(value, key) ==
    IF value = <<>> THEN NoneVal
    ELSE IF Lower(value) \in TrueTokens THEN BoolVal(TRUE)
    ELSE IF Lower(value) \in FalseTokens THEN BoolVal(FALSE)
    ELSE IF HasChar(value, ",") /\ is_list_field(key) THEN ListVal(SplitList(value))
    ELSE Numeric(value)

(***************************************************************************)
(* read_csv_file.  A source file is [status, header, lines]: header is the *)
(* first line, lines are the data lines, each a sequence of cells; the     *)
(* blank line is the empty sequence.  A row (a Python dict, ordered) is a  *)
(* sequence of << key, value >> pairs.                                     *)
(***************************************************************************)
\* a key or value of a row that is no string: None, or the list of extra cells
Missing == << "<None>" >>

\* csv.DictReader: the dict of one non-blank line; a cell missing from a short
\* line is None (restval), the extra cells of a long line are a list under the
\* key None (restkey)
DictRow(header, line) ==
    LET zipped == [k \in 1..(IF Len(line) < Len(header) THEN Len(line) ELSE Len(header))
                       |-> << header[k], line[k] >>]
    IN  IF Len(line) > Len(header) THEN zipped \o << << Missing, Missing >> >>
        ELSE zipped \o [k \in 1..(Len(header) - Len(line))
                            |-> << header[Len(line) + k], Missing >>]

\* {k: v for k, v in row.items() if v.strip()}; v.strip() raises AttributeError
\* when v is no string
CleanRow(row) ==
    IF \E k \in 1..Len(row) : row[k][2] = Missing
    THEN [ok |-> FALSE, row |-> <<>>]
    ELSE [ok |-> TRUE,
          row |-> LET keep(pair) == Strip(pair[2]) # <<>> IN SelectSeq(row, keep)]

\* the reader loop: blank lines are skipped by csv.DictReader
RECURSIVE ReadLines(_, _, _)
ReadCleaned(header, lines, data, c) ==
    IF c.ok THEN ReadLines(header, Tail(lines), Append(data, c.row))
    ELSE [ok |-> FALSE, data |-> <<>>]

ReadLines(header, lines, data) ==
    IF lines = <<>> THEN [ok |-> TRUE, data |-> data]
    ELSE IF Head(lines) = <<>> THEN ReadLines(header, Tail(lines), data)
    ELSE ReadCleaned(header, lines, data, CleanRow(DictRow(header, Head(lines))))

read_csv_file(src) == ReadLines(src.header, src.lines, <<>>)

(***************************************************************************)
(* transform_flat_to_nested.  A nested dict is a function from paths       *)
(* (non-empty sequences of keys) to values; a path that leads to a dict    *)
(* maps to DictVal.                                                        *)
(***************************************************************************)
EmptyDict == [p \in {} |-> DictVal]

IsProperPrefix(p, q) == Len(p) < Len(q) /\ SubSeq(q, 1, Len(p)) = p

\* current[key] = value: the value and, when the old value was a dict, its
\* content are replaced
SetItem(tree, path, value) ==
    [p \in {q \in DOMAIN tree : ~IsProperPrefix(path, q)} \cup {path}
        |-> IF p = path THEN value ELSE tree[p]]

\* the loop over parts[:-1]: [ok |-> FALSE] stands for the TypeError raised
\* when the value found at an intermediate level is no dict
RECURSIVE Descend(_, _, _)
DescendInto(made, parts, j) ==
    IF made[SubSeq(parts, 1, j)].kind = "dict" THEN Descend(made, parts, j + 1)
    ELSE [ok |-> FALSE, tree |-> made]

\* Descend with the test `if part not in current` forgotten: the level is
\* created anew at every visit
DescendAlwaysNew(tree, parts, j) ==
    IF j > Len(parts) - 1 THEN [ok |-> TRUE, tree |-> tree]
    ELSE DescendInto(SetItem(tree, SubSeq(parts, 1, j), DictVal), parts, j)

Descend(tree, parts, j) ==
    IF j > Len(parts) - 1 THEN [ok |-> TRUE, tree |-> tree]
    ELSE DescendInto(IF SubSeq(parts, 1, j) \in DOMAIN tree THEN tree
                     ELSE SetItem(tree, SubSeq(parts, 1, j), DictVal),
                     parts, j)

\* current[parts[-1]] = process_value(value, parts[-1])
PutAt(d, parts, value) ==
    IF d.ok
    THEN [ok |-> TRUE,
          tree |-> SetItem(d.tree, parts, process_value(value, parts[Len(parts)]))]
    ELSE [ok |-> FALSE, tree |-> d.tree]

PutDotted(tree, parts, value) == PutAt(Descend(tree, parts, 1), parts, value)

\* the body of the loop with the test `if '.' in key` forgotten: every key is
\* taken for a top-level key
PutPairTopLevel(tree, key, value) ==
    [ok |-> TRUE, tree |-> SetItem(tree, << key >>, process_value(value, key))]

\* the body of the loop over flat_dict.items()
PutPair(tree, key, value) ==
    IF HasChar(key, ".") THEN PutDotted(tree, Split(key, "."), value)
    ELSE [ok |-> TRUE, tree |-> SetItem(tree, << key >>, process_value(value, key))]

RECURSIVE PutPairs(_, _)
PutRest(r, row) ==
    IF r.ok THEN PutPairs(r.tree, Tail(row)) ELSE [ok |-> FALSE, tree |-> r.tree]

PutPairs(tree, row) ==
    IF row = <<>> THEN [ok |-> TRUE, tree |-> tree]
    ELSE PutRest(PutPair(tree, Head(row)[1], Head(row)[2]), row)

transform_flat_to_nested(flat_dict) == PutPairs(EmptyDict, flat_dict)

(***************************************************************************)
(* The schema directory, load_schema and validate_against_schema.  A file  *)
(* of the directory is [stem, ext, status, content]; content is the schema *)
(* node the file holds.  A schema node is [type, format, hasProps, props,  *)
(* hasItems, items, required], props being the ordered << name, node >>    *)
(* pairs of its 'properties'.  The validator of the jsonschema library is  *)
(* modelled for the `required` keyword.                                    *)
(***************************************************************************)
\* the value of a key a schema node does not hold
NoNode == [type |-> "<absent>"]

Leaf(type) ==
    [type |-> type, format |-> "", hasProps |-> FALSE, props |-> <<>>,
     hasItems |-> FALSE, items |-> NoNode, required |-> <<>>]

\* get_available_schemas(): one entry per *.json file, named by its stem
get_available_schemas(dir) ==
    LET json == SelectSeq([k \in 1..Len(dir) |-> k], LAMBDA k : dir[k].ext = "json")
    IN  [k \in 1..Len(json) |-> [name |-> dir[json[k]].stem, file |-> json[k]]]

SchemaNames(avail) == [k \in 1..Len(avail) |-> avail[k].name]

\* `schema_name not in available_schemas`
Known(name, avail) == \E k \in 1..Len(avail) : avail[k].name = name

\* available_schemas[schema_name]; a later file of the same stem replaces an earlier one
PathOf(name, avail) ==
    avail[CHOOSE k \in 1..Len(avail) :
              /\ avail[k].name = name
              /\ \A m \in (k + 1)..Len(avail) : avail[m].name # name].file

\* UnknownSchemaMessage without the list of the available names
UnknownSchemaMessageBare(name, avail) == << "Unknown schema: ", name >>

\* the message of the ValueError of an unknown schema name
UnknownSchemaMessage(name, avail) ==
    << "Unknown schema: ", name, ". Available schemas: ", SchemaNames(avail) >>

\* load_schema: the content of the file, or the exception raised
load_schema(file) ==
    IF file.status = "unreadable" THEN [ok |-> FALSE, exc |-> "OSError", schema |-> NoNode]
    ELSE IF file.status = "malformed"
    THEN [ok |-> FALSE, exc |-> "JSONDecodeError", schema |-> NoNode]
    ELSE [ok |-> TRUE, exc |-> "none", schema |-> file.content]

\* jsonschema.validate for a schema {"required": [...]}: the first required
\* key the instance lacks is the violation (0: none)
RECURSIVE FirstMissing(_, _, _)
FirstMissing(required, tree, k) ==
    IF k > Len(required) THEN 0
    ELSE IF << required[k] >> \notin DOMAIN tree THEN k
    ELSE FirstMissing(required, tree, k + 1)

validate(instance, schema, k) ==
    IF k = 0 THEN [exc |-> "none", is_valid |-> TRUE, error_message |-> <<>>]
    ELSE [exc |-> "none", is_valid |-> FALSE,
          error_message |-> << schema.required[k], " is a required property" >>]

Verdict(data, l) ==
    IF ~l.ok THEN [exc |-> l.exc, is_valid |-> FALSE, error_message |-> <<>>]
    ELSE validate(data, l.schema, FirstMissing(l.schema.required, data, 1))

\* validate_against_schema: (True, None), (False, str(e)), or the exception
\* of load_schema, which the handler does not catch
validate_against_schema(data, file) == Verdict(data, load_schema(file))

(***************************************************************************)
(* _flatten_schema.  A Python dict that is written key by key (flattened,  *)
(* the sample tables) is the ordered sequence of its << key, value >>      *)
(* pairs.                                                                  *)
(***************************************************************************)
\* position of the key in the dict (its keys are distinct), 0 when the dict lacks it
IndexOfKey(d, key) ==
    IF \E k \in 1..Len(d) : d[k][1] = key THEN CHOOSE k \in 1..Len(d) : d[k][1] = key
    ELSE 0

\* DictPutAt as d.setdefault(key, value): the first value of a key is kept
DictPutAtKeepFirst(d, key, value, k) ==
    IF k = 0 THEN Append(d, << key, value >>) ELSE d

\* d[key] = value: a key the dict holds keeps its position and takes the value
DictPutAt(d, key, value, k) ==
    IF k = 0 THEN Append(d, << key, value >>) ELSE [d EXCEPT ![k] = << key, value >>]

DictPut(d, key, value) == DictPutAt(d, key, value, IndexOfKey(d, key))

\* d.get(key, default)
DictGetAt(d, k, default) == IF k = 0 THEN default ELSE d[k][2]
DictGet(d, key, default) == DictGetAt(d, IndexOfKey(d, key), default)

\* list(d.keys())
DictKeys(d) == [k \in 1..Len(d) |-> d[k][1]]

openingHours == << "o", "p", "e", "n", "i", "n", "g", "H", "o", "u", "r", "s" >>

days ==
    << << "M", "o", "n", "d", "a", "y" >>,
       << "T", "u", "e", "s", "d", "a", "y" >>,
       << "W", "e", "d", "n", "e", "s", "d", "a", "y" >>,
       << "T", "h", "u", "r", "s", "d", "a", "y" >>,
       << "F", "r", "i", "d", "a", "y" >>,
       << "S", "a", "t", "u", "r", "d", "a", "y" >>,
       << "S", "u", "n", "d", "a", "y" >> >>

sOpens == << "o", "p", "e", "n", "s" >>
sCloses == << "c", "l", "o", "s", "e", "s" >>

TimeLeaf ==
    [type |-> "string", format |-> "time", hasProps |-> FALSE, props |-> <<>>,
     hasItems |-> FALSE, items |-> NoNode, required |-> <<>>]

\* f"{parent_key}.{key}" if parent_key else key
NewKey(parent_key, key) ==
    IF parent_key # <<>> THEN parent_key \o << "." >> \o key ELSE key

\* lines 63-65: one entry per property of the item object
RECURSIVE PutItemProps(_, _, _, _)
PutItemProps(props, k, new_key, flattened) ==
    IF k > Len(props) THEN flattened
    ELSE PutItemProps(props, k + 1, new_key,
                      DictPut(flattened, NewKey(new_key, props[k][1]), props[k][2]))

\* PutDays with line 71 forgotten: no closes entry
RECURSIVE PutDays(_, _, _)
PutDaysOpensOnly(k, new_key, flattened) ==
    IF k > Len(days) THEN flattened
    ELSE PutDays(k + 1, new_key,
                 DictPut(flattened, NewKey(NewKey(new_key, days[k]), sOpens), TimeLeaf))

\* lines 68-71: the opens and closes entries of every day
PutDays(k, new_key, flattened) ==
    IF k > Len(days) THEN flattened
    ELSE PutDays(k + 1, new_key,
                 DictPut(DictPut(flattened,
                                 NewKey(NewKey(new_key, days[k]), sOpens), TimeLeaf),
                         NewKey(NewKey(new_key, days[k]), sCloses), TimeLeaf))

\* FlattenArray with the array of objects written under its own key as well
FlattenArrayKeepsKey(key, value, new_key, flattened) ==
    IF value.items.hasProps /\ value.items.type = "object"
    THEN PutItemProps(value.items.props, 1, new_key, DictPut(flattened, new_key, value))
    ELSE IF key = openingHours THEN PutDays(1, new_key, flattened)
    ELSE DictPut(flattened, new_key, value)

\* lines 58-74: an array property
FlattenArray(key, value, new_key, flattened) ==
    IF value.items.hasProps /\ value.items.type = "object"
    THEN PutItemProps(value.items.props, 1, new_key, flattened)
    ELSE IF key = openingHours THEN PutDays(1, new_key, flattened)
    ELSE DictPut(flattened, new_key, value)

\* lines 51-77: the loop over the properties of one schema node
RECURSIVE FlattenProps(_, _, _, _)
FlattenProperty(key, value, new_key, flattened) ==
    IF value.hasProps /\ value.type = "object"
    THEN FlattenProps(value.props, 1, new_key, flattened)
    ELSE IF value.hasItems /\ value.type = "array"
    THEN FlattenArray(key, value, new_key, flattened)
    ELSE DictPut(flattened, new_key, value)

FlattenProps(props, k, parent_key, flattened) ==
    IF k > Len(props) THEN flattened
    ELSE FlattenProps(props, k + 1, parent_key,
                      FlattenProperty(props[k][1], props[k][2],
                                      NewKey(parent_key, props[k][1]), flattened))

\* schema.get('properties', {}) is flattened from the empty parent key
_flatten_schema(schema) ==
    FlattenProps(IF schema.hasProps THEN schema.props ELSE <<>>, 1, <<>>, <<>>)

\* list(schema.keys()), unsorted
_schema_to_csv_headers(flattened) == DictKeys(flattened)

(***************************************************************************)
(* _create_sample_row and the csv writer of _generate_csv_template.        *)
(***************************************************************************)
sEvent == << "e", "v", "e", "n", "t" >>
sPlace == << "p", "l", "a", "c", "e" >>

\* the sample of id is f"{schema_name}123"
common_samples(name) ==
    <<
      << << "s", "o", "u", "r", "c", "e", "I", "d" >>,
        << "p", "a", "r", "t", "n", "e", "r", "1", "2", "3" >> >>,
      << << "i", "d" >>,
        name \o << "1", "2", "3" >> >>,
      << << "n", "a", "m", "e", "F", "r" >>,
        << "N", "o", "m", " ", "e", "n", " ", "f", "r", "a", "n", "ç", "a", "i",
          "s" >> >>,
      << << "n", "a", "m", "e", "E", "n" >>,
        << "N", "a", "m", "e", " ", "i", "n", " ", "E", "n", "g", "l", "i", "s",
          "h" >> >>,
      << << "d", "e", "s", "c", "r", "i", "p", "t", "i", "o", "n", "F", "r" >>,
        << "D", "e", "s", "c", "r", "i", "p", "t", "i", "o", "n", " ", "e", "n", " ",
          "f", "r", "a", "n", "ç", "a", "i", "s" >> >>,
      << << "d", "e", "s", "c", "r", "i", "p", "t", "i", "o", "n", "E", "n" >>,
        << "D", "e", "s", "c", "r", "i", "p", "t", "i", "o", "n", " ", "i", "n", " ",
          "E", "n", "g", "l", "i", "s", "h" >> >> >>

event_samples ==
    <<
      << << "s", "t", "a", "t", "u", "s" >>,
        << "s", "c", "h", "e", "d", "u", "l", "e", "d" >> >>,
      << << "s", "t", "a", "r", "t", "D", "a", "t", "e" >>,
        << "2", "0", "2", "3", "-", "0", "8", "-", "1", "5" >> >>,
      << << "e", "n", "d", "D", "a", "t", "e" >>,
        << "2", "0", "2", "3", "-", "0", "8", "-", "1", "5" >> >>,
      << << "s", "t", "a", "r", "t", "T", "i", "m", "e" >>,
        << "1", "9", ":", "3", "0" >> >>,
      << << "e", "n", "d", "T", "i", "m", "e" >>,
        << "2", "2", ":", "0", "0" >> >>,
      << << "p", "l", "a", "c", "e", "I", "d" >>,
        << "p", "l", "a", "c", "e", "1", "2", "3" >> >>,
      << << "p", "r", "i", "c", "e", ".", "t", "y", "p", "e" >>,
        << "r", "a", "n", "g", "e" >> >>,
      << << "p", "r", "i", "c", "e", ".", "c", "u", "r", "r", "e", "n", "c", "y" >>,
        << "C", "A", "D" >> >>,
      << << "p", "r", "i", "c", "e", ".", "m", "i", "n", "V", "a", "l", "u", "e" >>,
        << "2", "5", ".", "0", "0" >> >>,
      << << "p", "r", "i", "c", "e", ".", "m", "a", "x", "V", "a", "l", "u", "e" >>,
        << "7", "5", ".", "0", "0" >> >>,
      << << "c", "a", "t", "e", "g", "o", "r", "y", "T", "a", "g", "s" >>,
        << "m", "u", "s", "i", "c", ",", "c", "o", "n", "c", "e", "r", "t", ",", "j",
          "a", "z", "z" >> >>,
      << << "p", "e", "r", "f", "o", "r", "m", "e", "r", "N", "a", "m", "e", "s" >>,
        << "J", "o", "h", "n", " ", "S", "m", "i", "t", "h", " ", "Q", "u", "a", "r",
          "t", "e", "t", ",", "J", "a", "n", "e", " ", "D", "o", "e" >> >>,
      << << "i", "s", "A", "c", "c", "e", "s", "s", "i", "b", "l", "e" >>,
        << "t", "r", "u", "e" >> >>,
      << << "a", "c", "c", "e", "s", "s", "i", "b", "i", "l", "i", "t", "y", "F", "e",
         "a", "t", "u", "r", "e", "s" >>,
        << "W", "h", "e", "e", "l", "c", "h", "a", "i", "r", " ", "A", "c", "c", "e",
          "s", "s", ",", "A", "s", "s", "i", "s", "t", "i", "v", "e", " ", "L", "i", "s",
          "t", "e", "n", "i", "n", "g", " ", "S", "y", "s", "t", "e", "m", "s" >> >>,
      << << "i", "m", "a", "g", "e", "s", ".", "u", "r", "l" >>,
        << "h", "t", "t", "p", "s", ":", "/", "/", "e", "x", "a", "m", "p", "l", "e",
          ".", "c", "o", "m", "/", "i", "m", "a", "g", "e", "s", "/", "e", "v", "e", "n",
          "t", ".", "j", "p", "g" >> >>,
      << << "i", "m", "a", "g", "e", "s", ".", "a", "l", "t", "T", "e", "x", "t" >>,
        << "E", "v", "e", "n", "t", " ", "i", "m", "a", "g", "e", " ", "d", "e", "s",
          "c", "r", "i", "p", "t", "i", "o", "n" >> >>,
      << << "i", "m", "a", "g", "e", "s", ".", "w", "i", "d", "t", "h" >>,
        << "1", "2", "0", "0" >> >>,
      << << "i", "m", "a", "g", "e", "s", ".", "h", "e", "i", "g", "h", "t" >>,
        << "8", "0", "0" >> >>,
      << << "t", "i", "c", "k", "e", "t", "P", "u", "r", "c", "h", "a", "s", "e", "U",
         "r", "l" >>,
        << "h", "t", "t", "p", "s", ":", "/", "/", "e", "x", "a", "m", "p", "l", "e",
          ".", "c", "o", "m", "/", "t", "i", "c", "k", "e", "t", "s" >> >> >>

place_samples ==
    <<
      << << "l", "o", "c", "a", "t", "i", "o", "n", "T", "y", "p", "e" >>,
        << "P", "l", "a", "c", "e" >> >>,
      << << "c", "o", "n", "t", "a", "i", "n", "e", "d", "I", "n", "P", "l", "a", "c",
         "e", "S", "t", "a", "t", "u", "s" >>,
        << "f", "a", "l", "s", "e" >> >>,
      << << "a", "d", "d", "r", "e", "s", "s", "S", "t", "r", "e", "e", "t" >>,
        << "1", "2", "3", " ", "M", "a", "i", "n", " ", "S", "t", "r", "e", "e",
          "t" >> >>,
      << << "a", "d", "d", "r", "e", "s", "s", "C", "i", "t", "y" >>,
        << "M", "o", "n", "t", "r", "é", "a", "l" >> >>,
      << << "a", "d", "d", "r", "e", "s", "s", "R", "e", "g", "i", "o", "n" >>,
        << "Q", "C" >> >>,
      << << "a", "d", "d", "r", "e", "s", "s", "P", "o", "s", "t", "a", "l", "C", "o",
         "d", "e" >>,
        << "H", "2", "X", "1", "Z", "4" >> >>,
      << << "a", "d", "d", "r", "e", "s", "s", "C", "o", "u", "n", "t", "r", "y" >>,
        << "C", "A", "N" >> >>,
      << << "l", "a", "t", "i", "t", "u", "d", "e" >>,
        << "4", "5", ".", "5", "0", "8", "8" >> >>,
      << << "l", "o", "n", "g", "i", "t", "u", "d", "e" >>,
        << "-", "7", "3", ".", "5", "8", "7", "8" >> >>,
      << << "c", "a", "p", "a", "c", "i", "t", "y" >>,
        << "5", "0", "0" >> >>,
      << << "p", "h", "o", "n", "e", "N", "u", "m", "b", "e", "r" >>,
        << "+", "1", "5", "1", "4", "1", "2", "3", "4", "5", "6", "7" >> >>,
      << << "e", "m", "a", "i", "l", "A", "d", "d", "r", "e", "s", "s" >>,
        << "i", "n", "f", "o", "@", "e", "x", "a", "m", "p", "l", "e", ".", "c", "o",
          "m" >> >>,
      << << "w", "e", "b", "s", "i", "t", "e", "U", "r", "l" >>,
        << "h", "t", "t", "p", "s", ":", "/", "/", "e", "x", "a", "m", "p", "l", "e",
          ".", "c", "o", "m" >> >>,
      << << "o", "p", "e", "n", "i", "n", "g", "H", "o", "u", "r", "s", ".", "M", "o",
         "n", "d", "a", "y", ".", "o", "p", "e", "n", "s" >>,
        << "0", "9", ":", "0", "0" >> >>,
      << << "o", "p", "e", "n", "i", "n", "g", "H", "o", "u", "r", "s", ".", "M", "o",
         "n", "d", "a", "y", ".", "c", "l", "o", "s", "e", "s" >>,
        << "1", "7", ":", "0", "0" >> >>,
      << << "o", "p", "e", "n", "i", "n", "g", "H", "o", "u", "r", "s", ".", "T", "u",
         "e", "s", "d", "a", "y", ".", "o", "p", "e", "n", "s" >>,
        << "0", "9", ":", "0", "0" >> >>,
      << << "o", "p", "e", "n", "i", "n", "g", "H", "o", "u", "r", "s", ".", "T", "u",
         "e", "s", "d", "a", "y", ".", "c", "l", "o", "s", "e", "s" >>,
        << "1", "7", ":", "0", "0" >> >>,
      << << "o", "p", "e", "n", "i", "n", "g", "H", "o", "u", "r", "s", ".", "W", "e",
         "d", "n", "e", "s", "d", "a", "y", ".", "o", "p", "e", "n", "s" >>,
        << "0", "9", ":", "0", "0" >> >>,
      << << "o", "p", "e", "n", "i", "n", "g", "H", "o", "u", "r", "s", ".", "W", "e",
         "d", "n", "e", "s", "d", "a", "y", ".", "c", "l", "o", "s", "e", "s" >>,
        << "1", "7", ":", "0", "0" >> >>,
      << << "o", "p", "e", "n", "i", "n", "g", "H", "o", "u", "r", "s", ".", "T", "h",
         "u", "r", "s", "d", "a", "y", ".", "o", "p", "e", "n", "s" >>,
        << "0", "9", ":", "0", "0" >> >>,
      << << "o", "p", "e", "n", "i", "n", "g", "H", "o", "u", "r", "s", ".", "T", "h",
         "u", "r", "s", "d", "a", "y", ".", "c", "l", "o", "s", "e", "s" >>,
        << "2", "1", ":", "0", "0" >> >>,
      << << "o", "p", "e", "n", "i", "n", "g", "H", "o", "u", "r", "s", ".", "F", "r",
         "i", "d", "a", "y", ".", "o", "p", "e", "n", "s" >>,
        << "0", "9", ":", "0", "0" >> >>,
      << << "o", "p", "e", "n", "i", "n", "g", "H", "o", "u", "r", "s", ".", "F", "r",
         "i", "d", "a", "y", ".", "c", "l", "o", "s", "e", "s" >>,
        << "2", "1", ":", "0", "0" >> >>,
      << << "o", "p", "e", "n", "i", "n", "g", "H", "o", "u", "r", "s", ".", "S", "a",
         "t", "u", "r", "d", "a", "y", ".", "o", "p", "e", "n", "s" >>,
        << "1", "0", ":", "0", "0" >> >>,
      << << "o", "p", "e", "n", "i", "n", "g", "H", "o", "u", "r", "s", ".", "S", "a",
         "t", "u", "r", "d", "a", "y", ".", "c", "l", "o", "s", "e", "s" >>,
        << "2", "1", ":", "0", "0" >> >>,
      << << "o", "p", "e", "n", "i", "n", "g", "H", "o", "u", "r", "s", ".", "S", "u",
         "n", "d", "a", "y", ".", "o", "p", "e", "n", "s" >>,
        << "1", "0", ":", "0", "0" >> >>,
      << << "o", "p", "e", "n", "i", "n", "g", "H", "o", "u", "r", "s", ".", "S", "u",
         "n", "d", "a", "y", ".", "c", "l", "o", "s", "e", "s" >>,
        << "1", "7", ":", "0", "0" >> >>,
      << << "a", "c", "c", "e", "s", "s", "i", "b", "i", "l", "i", "t", "y", "F", "e",
         "a", "t", "u", "r", "e", "s" >>,
        << "W", "h", "e", "e", "l", "c", "h", "a", "i", "r", " ", "A", "c", "c", "e",
          "s", "s", ",", "A", "c", "c", "e", "s", "s", "i", "b", "l", "e", " ", "R", "e",
          "s", "t", "r", "o", "o", "m", "s", ",", "A", "s", "s", "i", "s", "t", "i", "v",
          "e", " ", "L", "i", "s", "t", "e", "n", "i", "n", "g", " ", "S", "y", "s", "t",
          "e", "m", "s" >> >>,
      << << "i", "m", "a", "g", "e", "s", ".", "u", "r", "l" >>,
        << "h", "t", "t", "p", "s", ":", "/", "/", "e", "x", "a", "m", "p", "l", "e",
          ".", "c", "o", "m", "/", "i", "m", "a", "g", "e", "s", "/", "p", "l", "a", "c",
          "e", ".", "j", "p", "g" >> >>,
      << << "i", "m", "a", "g", "e", "s", ".", "a", "l", "t", "T", "e", "x", "t" >>,
        << "E", "x", "t", "e", "r", "i", "o", "r", " ", "v", "i", "e", "w", " ", "o",
          "f", " ", "t", "h", "e", " ", "l", "o", "c", "a", "t", "i", "o", "n" >> >>,
      << << "i", "m", "a", "g", "e", "s", ".", "w", "i", "d", "t", "h" >>,
        << "1", "2", "0", "0" >> >>,
      << << "i", "m", "a", "g", "e", "s", ".", "h", "e", "i", "g", "h", "t" >>,
        << "8", "0", "0" >> >> >>

\* {**d, **other}: the keys of d keep their places and take the values of
\* other, the new keys of other follow in the order of other
NewPairs(d, other) == SelectSeq(other, LAMBDA pair : IndexOfKey(d, pair[1]) = 0)

DictUpdate(d, other) ==
    [k \in 1..Len(d) |-> << d[k][1], DictGet(other, d[k][1], d[k][2]) >>]
        \o NewPairs(d, other)

schema_samples(name) ==
    IF name = sEvent THEN event_samples
    ELSE IF name = sPlace THEN place_samples
    ELSE <<>>

\* lines 112-184
sample_data(name) == DictUpdate(common_samples(name), schema_samples(name))

\* SampleOf with the headers that have no sample left out
SampleOfKnownOnly(hdrs, data) ==
    SelectSeq([k \in 1..Len(hdrs) |-> << hdrs[k], DictGet(data, hdrs[k], <<>>) >>],
              LAMBDA pair : IndexOfKey(data, pair[1]) # 0)

\* {header: sample_data.get(header, "") for header in headers}, the headers
\* being the distinct keys of the flattened schema
SampleOf(hdrs, data) == [k \in 1..Len(hdrs) |-> << hdrs[k], DictGet(data, hdrs[k], <<>>) >>]

_create_sample_row(hdrs, name) == SampleOf(hdrs, sample_data(name))

\* csv.writer, QUOTE_MINIMAL: a field that holds the delimiter, the quote
\* character or a line break is quoted, its quotes doubled
NeedsQuote(field) == \E k \in 1..Len(field) : field[k] \in {",", "\"", "\r", "\n"}

RECURSIVE DoubleQuotes(_)
DoubleQuotes(field) ==
    IF field = <<>> THEN <<>>
    ELSE IF Head(field) = "\"" THEN << "\"", "\"" >> \o DoubleQuotes(Tail(field))
    ELSE << Head(field) >> \o DoubleQuotes(Tail(field))

WriteField(field) ==
    IF NeedsQuote(field) THEN << "\"" >> \o DoubleQuotes(field) \o << "\"" >> ELSE field

RECURSIVE JoinFields(_, _)
JoinFields(fields, k) ==
    IF k > Len(fields) THEN <<>>
    ELSE IF k = Len(fields) THEN WriteField(fields[k])
    ELSE WriteField(fields[k]) \o << "," >> \o JoinFields(fields, k + 1)

\* writer.writerow: a row of one empty field is written as ""
WriteRow(fields) ==
    (IF fields = << <<>> >> THEN << "\"", "\"" >> ELSE JoinFields(fields, 1))
        \o << "\r", "\n" >>

\* DictWriter.writerow: [rowdict.get(key, "") for key in fieldnames]
RowFields(hdrs, row) == [k \in 1..Len(hdrs) |-> DictGet(row, hdrs[k], <<>>)]

\* lines 211-217: the header line, then the sample line
WriteTemplate(hdrs, row) == WriteRow(hdrs) \o WriteRow(RowFields(hdrs, row))

(***************************************************************************)
(* The inputs the model draws from.                                        *)
(***************************************************************************)
kId == << "i", "d" >>
kA == << "a" >>
kAB == << "a", ".", "b" >>

SeqsUpTo(S, n) == UNION {[1..k -> S] : k \in 0..n}

Object(props, required) ==
    [type |-> "object", format |-> "", hasProps |-> TRUE, props |-> props,
     hasItems |-> FALSE, items |-> NoNode, required |-> required]

Array(items) ==
    [type |-> "array", format |-> "", hasProps |-> FALSE, props |-> <<>>,
     hasItems |-> TRUE, items |-> items, required |-> <<>>]

kB == << "b" >>
kUrl == << "u", "r", "l" >>
kSize == << "s", "i", "z", "e" >>
kW == << "w" >>
kImages == << "i", "m", "a", "g", "e", "s" >>
kCategoryTags == << "c", "a", "t", "e", "g", "o", "r", "y", "T", "a", "g", "s" >>
sNotes == << "n", "o", "t", "e", "s" >>

\* an event schema: a nested object, an array of strings, an array of objects
EventSchema ==
    Object(<< << kId, Leaf("string") >>,
              << kA, Object(<< << kB, Leaf("string") >> >>, <<>>) >>,
              << kCategoryTags, Array(Leaf("string")) >>,
              << kImages, Array(Object(<< << kUrl, Leaf("string") >>,
                                          << kSize, Object(<< << kW, Leaf("integer") >> >>,
                                                           <<>>) >> >>,
                                       <<>>)) >> >>,
           << kId >>)

\* a place schema: opening hours, and a property named a.b after a nested a.b
PlaceSchema ==
    Object(<< << kId, Leaf("string") >>,
              << kA, Object(<< << kB, Leaf("integer") >> >>, <<>>) >>,
              << openingHours, Array(Leaf("integer")) >>,
              << kAB, Leaf("string") >> >>,
           << kA >>)

EventFile(status) ==
    [stem |-> sEvent, ext |-> "json", status |-> status, content |-> EventSchema]
PlaceFile(status) ==
    [stem |-> sPlace, ext |-> "json", status |-> status, content |-> PlaceSchema]
NotesFile == [stem |-> sNotes, ext |-> "txt", status |-> "ok", content |-> NoNode]

SchemaDirs ==
    { << EventFile("ok"), NotesFile, PlaceFile("ok") >>,
      << PlaceFile("malformed"), EventFile("unreadable") >>,
      << NotesFile >> }

RequestedNames == {sEvent, sPlace, sNotes}

HeaderChoices == { << kId, kA >>, << kA, kAB >>, << kAB, kA >> }

CellValues == { <<>>, << "x" >>, << " " >> }

\* the data lines a source with this header may hold: every line of the
\* header's width, the blank line, a short line and a long line
LineChoices(header) ==
    [1..Len(header) -> CellValues]
        \cup { <<>>, << << "x" >> >>, [k \in 1..(Len(header) + 1) |-> << "x" >>] }

NoSource == [status |-> "missing", header |-> <<>>, lines |-> <<>>]

\* the source of test_import_and_validate_csv_event, and a line without id
ExampleSource ==
    [status |-> "ok",
     header |-> << << "s", "o", "u", "r", "c", "e", "I", "d" >>, kId,
                   << "n", "a", "m", "e", "F", "r" >>,
                   << "d", "e", "s", "c", "r", "i", "p", "t", "i", "o", "n", "F", "r" >>,
                   << "s", "t", "a", "t", "u", "s" >> >>,
     lines |->
       << << << "p", "a", "r", "t", "n", "e", "r", "1", "2", "3" >>,
             << "e", "v", "e", "n", "t", "1", "2", "3" >>,
             << "V", "a", "l", "i", "d", " ", "E", "v", "e", "n", "t" >>,
             << "V", "a", "l", "i", "d", " ", "D", "e", "s", "c", "r", "i", "p", "t",
                "i", "o", "n" >>,
             << "S", "c", "h", "e", "d", "u", "l", "e", "d" >> >>,
          << << "p", "a", "r", "t", "n", "e", "r", "1", "2", "3" >>,
             << "e", "v", "e", "n", "t", "4", "5", "6" >>,
             <<>>,
             << "I", "n", "v", "a", "l", "i", "d", " ", "D", "e", "s", "c", "r", "i",
                "p", "t", "i", "o", "n" >>,
             << "I", "n", "v", "a", "l", "i", "d", "S", "t", "a", "t", "u", "s" >> >>,
          << << "p", "a", "r", "t", "n", "e", "r", "1", "2", "3" >>,
             <<>>,
             << "x" >>,
             <<>>,
             <<>> >> >>]

Sources ==
    {NoSource, ExampleSource} \cup
    UNION { {[status |-> "ok", header |-> h, lines |-> ls] :
                ls \in SeqsUpTo(LineChoices(h), MaxRows)} : h \in HeaderChoices }

EmptyResults ==
    [total |-> 0, valid |-> 0, invalid |-> 0, valid_items |-> <<>>, invalid_items |-> <<>>]

NoResult == Val("<not called>", FALSE, 0, 0, <<>>, <<>>)

\* the value of report before get_validation_report is called
NoReport == << "<not called>" >>

Unknown == << "u", "n", "k", "n", "o", "w", "n" >>

\* GetId without the default: nested_data.get("id")
GetIdNoDefault(tree) == IF << kId >> \in DOMAIN tree THEN tree[<< kId >>] ELSE NoneVal

\* nested_data.get("id", "unknown")
GetId(tree) == IF << kId >> \in DOMAIN tree THEN tree[<< kId >>] ELSE StrVal(Unknown)

(***************************************************************************)
(* import_and_validate_csv, one action per step of the call.               *)
(***************************************************************************)
Init ==
    /\ schemaDir \in SchemaDirs
    /\ op \in {"import", "template"}
    /\ source \in IF op = "import" THEN Sources ELSE {NoSource}
    /\ schema_name \in RequestedNames
    /\ pc = "start"
    /\ available_schemas = <<>>
    /\ schema_path = 0
    /\ opened = FALSE
    /\ csv_data = <<>>
    /\ i = 0
    /\ transcoded = 0
    /\ validated = 0
    /\ validation_results = EmptyResults
    /\ raised = "none"
    /\ message = <<>>
    /\ flattened_schema = <<>>
    /\ headers = <<>>
    /\ sample_row = <<>>
    /\ template = <<>>
    /\ pv_value = <<>>
    /\ pv_key = <<>>
    /\ pv_result = NoResult
    /\ loaded = <<>>
    /\ report = NoReport
    /\ tf_flat = <<>>
    /\ tf_nested = EmptyDict

Raise(exc, msg) ==
    /\ pc' = "raised"
    /\ raised' = exc
    /\ message' = msg

\* ImportResolve with the source opened before the schema name is checked
ImportResolveAfterOpen ==
    /\ pc = "start"
    /\ op = "import"
    /\ available_schemas' = get_available_schemas(schemaDir)
    /\ opened' = TRUE
    /\ IF source.status # "ok"
       THEN /\ Raise("FileNotFoundError", <<>>)
            /\ UNCHANGED schema_path
       ELSE IF ~Known(schema_name, available_schemas')
       THEN /\ Raise("ValueError", UnknownSchemaMessage(schema_name, available_schemas'))
            /\ UNCHANGED schema_path
       ELSE /\ schema_path' = PathOf(schema_name, available_schemas')
            /\ pc' = "read"
            /\ UNCHANGED << raised, message >>
    /\ UNCHANGED << schemaDir, source, op, schema_name, csv_data, i, transcoded,
                    validated, validation_results >>
    /\ UNCHANGED tplVars
    /\ UNCHANGED pvVars
    /\ UNCHANGED tfVars
    /\ UNCHANGED << loaded, report >>

\* lines 172-179: discover the schemas and resolve the name
ImportResolve ==
    /\ pc = "start"
    /\ op = "import"
    /\ available_schemas' = get_available_schemas(schemaDir)
    /\ IF ~Known(schema_name, available_schemas')
       THEN /\ Raise("ValueError", UnknownSchemaMessage(schema_name, available_schemas'))
            /\ UNCHANGED schema_path
       ELSE /\ schema_path' = PathOf(schema_name, available_schemas')
            /\ pc' = "read"
            /\ UNCHANGED << raised, message >>
    /\ UNCHANGED << schemaDir, source, op, schema_name, opened, csv_data, i, transcoded,
                    validated, validation_results >>
    /\ UNCHANGED tplVars
    /\ UNCHANGED pvVars
    /\ UNCHANGED tfVars
    /\ UNCHANGED << loaded, report >>

\* lines 181-191: read the source and create the report
SourceRead(r) ==
    IF ~r.ok
    THEN /\ Raise("AttributeError", <<>>)
         /\ UNCHANGED << csv_data, validation_results >>
    ELSE /\ csv_data' = r.data
         /\ validation_results' = [EmptyResults EXCEPT !.total = Len(r.data)]
         /\ pc' = "loop"
         /\ UNCHANGED << raised, message >>

ImportRead ==
    /\ pc = "read"
    /\ opened' = TRUE
    /\ IF source.status # "ok"
       THEN /\ Raise("FileNotFoundError", <<>>)
            /\ UNCHANGED << csv_data, validation_results >>
       ELSE SourceRead(read_csv_file(source))
    /\ UNCHANGED << schemaDir, source, op, schema_name, available_schemas, schema_path,
                    i, transcoded, validated >>
    /\ UNCHANGED tplVars
    /\ UNCHANGED pvVars
    /\ UNCHANGED tfVars
    /\ UNCHANGED << loaded, report >>

\* RowValidated with the invalid tally forgotten
RowValidatedNoTally(data, v) ==
    IF v.exc # "none"
    THEN /\ Raise(v.exc, <<>>)
         /\ UNCHANGED << i, validated, validation_results >>
    ELSE /\ validated' = validated + 1
         /\ validation_results' =
              IF v.is_valid
              THEN [validation_results EXCEPT
                      !.valid = @ + 1,
                      !.valid_items = Append(@, [row |-> i + 2,
                                                 id |-> GetId(data),
                                                 data |-> data])]
              ELSE [validation_results EXCEPT
                      !.invalid_items = Append(@, [row |-> i + 2,
                                                   id |-> GetId(data),
                                                   error |-> v.error_message,
                                                   data |-> data])]
         /\ i' = i + 1
         /\ UNCHANGED << pc, raised, message >>

\* RowValidated with the row number i + 1 (the header line not counted)
RowValidatedOffByOne(data, v) ==
    IF v.exc # "none"
    THEN /\ Raise(v.exc, <<>>)
         /\ UNCHANGED << i, validated, validation_results >>
    ELSE /\ validated' = validated + 1
         /\ validation_results' =
              IF v.is_valid
              THEN [validation_results EXCEPT
                      !.valid = @ + 1,
                      !.valid_items = Append(@, [row |-> i + 1,
                                                 id |-> GetId(data),
                                                 data |-> data])]
              ELSE [validation_results EXCEPT
                      !.invalid = @ + 1,
                      !.invalid_items = Append(@, [row |-> i + 1,
                                                   id |-> GetId(data),
                                                   error |-> v.error_message,
                                                   data |-> data])]
         /\ i' = i + 1
         /\ UNCHANGED << pc, raised, message >>

\* RowValidated with insert(0, ...) in place of append(...)
RowValidatedPrepend(data, v) ==
    IF v.exc # "none"
    THEN /\ Raise(v.exc, <<>>)
         /\ UNCHANGED << i, validated, validation_results >>
    ELSE /\ validated' = validated + 1
         /\ validation_results' =
              IF v.is_valid
              THEN [validation_results EXCEPT
                      !.valid = @ + 1,
                      !.valid_items = << [row |-> i + 2,
                                          id |-> GetId(data),
                                          data |-> data] >> \o @]
              ELSE [validation_results EXCEPT
                      !.invalid = @ + 1,
                      !.invalid_items = << [row |-> i + 2,
                                            id |-> GetId(data),
                                            error |-> v.error_message,
                                            data |-> data] >> \o @]
         /\ i' = i + 1
         /\ UNCHANGED << pc, raised, message >>

\* lines 200-214: the outcome of the row is appended to its bucket
RowValidated(data, v) ==
    IF v.exc # "none"
    THEN /\ Raise(v.exc, <<>>)
         /\ UNCHANGED << i, validated, validation_results >>
    ELSE /\ validated' = validated + 1
         /\ validation_results' =
              IF v.is_valid
              THEN [validation_results EXCEPT
                      !.valid = @ + 1,
                      !.valid_items = Append(@, [row |-> i + 2,
                                                 id |-> GetId(data),
                                                 data |-> data])]
              ELSE [validation_results EXCEPT
                      !.invalid = @ + 1,
                      !.invalid_items = Append(@, [row |-> i + 2,
                                                   id |-> GetId(data),
                                                   error |-> v.error_message,
                                                   data |-> data])]
         /\ i' = i + 1
         /\ UNCHANGED << pc, raised, message >>

\* lines 195-198: the row is transcoded, then validated
RowTranscoded(t) ==
    IF ~t.ok
    THEN /\ Raise("TypeError", <<>>)
         /\ UNCHANGED << i, validated, validation_results, loaded >>
    ELSE /\ loaded' = Append(loaded, load_schema(schemaDir[schema_path]))
         /\ RowValidated(t.tree, validate_against_schema(t.tree, schemaDir[schema_path]))

\* lines 193-214: one iteration of the row loop
ImportRow ==
    /\ pc = "loop"
    /\ i < Len(csv_data)
    /\ transcoded' = transcoded + 1
    /\ RowTranscoded(transform_flat_to_nested(csv_data[i + 1]))
    /\ UNCHANGED << schemaDir, source, op, schema_name, available_schemas, schema_path,
                    opened, csv_data >>
    /\ UNCHANGED tplVars
    /\ UNCHANGED pvVars
    /\ UNCHANGED tfVars
    /\ UNCHANGED report

\* line 216: the loop is over, the report is returned
ImportReturn ==
    /\ pc = "loop"
    /\ i = Len(csv_data)
    /\ pc' = "done"
    /\ UNCHANGED << schemaDir, source, op, schema_name, available_schemas, schema_path,
                    opened, csv_data, i, transcoded, validated, validation_results,
                    raised, message >>
    /\ UNCHANGED tplVars
    /\ UNCHANGED pvVars
    /\ UNCHANGED tfVars
    /\ UNCHANGED << loaded, report >>

(***************************************************************************)
(* get_validation_report.  The report is the sequence of its lines (line   *)
(* 247 joins them with a line break), a line the sequence of the pieces of *)
(* its f-string.                                                           *)
(***************************************************************************)
\* lines 243-245: the three lines of one invalid item
EntryLine(item, n) ==
    IF n = 0 THEN << "Row ", item.row, " (ID: ", item.id, ")" >>
    ELSE IF n = 1 THEN << "Error: ", item.error >>
    ELSE << "" >>

\* lines 242-245: the loop over invalid_items
EntryLines(items) ==
    [k \in 1..(3 * Len(items)) |-> EntryLine(items[((k - 1) \div 3) + 1], (k - 1) % 3)]

\* lines 231-236
ReportHead(results) ==
    << << "Validation Report" >>,
       << "==================" >>,
       << "Total rows: ", results.total >>,
       << "Valid: ", results.valid >>,
       << "Invalid: ", results.invalid >>,
       << "" >> >>

\* get_validation_report with the test of line 238 forgotten
get_validation_reportAlwaysSection(results) ==
    ReportHead(results)
        \o << << "Invalid Entries" >>, << "--------------" >> >>
        \o EntryLines(results.invalid_items)

get_validation_report(results) ==
    ReportHead(results)
        \o (IF results.invalid > 0
            THEN << << "Invalid Entries" >>, << "--------------" >> >>
                     \o EntryLines(results.invalid_items)
            ELSE <<>>)

\* the caller renders the report of the results returned by the import
GetValidationReport ==
    /\ op = "import"
    /\ pc = "done"
    /\ report = NoReport
    /\ report' = get_validation_report(validation_results)
    /\ UNCHANGED << schemaDir, source, op, schema_name, pc, available_schemas, schema_path,
                    opened, csv_data, i, transcoded, validated, validation_results,
                    raised, message, loaded >>
    /\ UNCHANGED tplVars
    /\ UNCHANGED pvVars
    /\ UNCHANGED tfVars

(***************************************************************************)
(* The schema directory is a directory of the file system: while the row   *)
(* loop of an import runs, another process may remove the resolved schema  *)
(* file or replace its content.  One such change per run is modelled.      *)
(***************************************************************************)
SchemaFileChanges ==
    /\ op = "import"
    /\ pc = "loop"
    /\ schemaDir \in SchemaDirs
    /\ schemaDir[schema_path].status = "ok"
    /\ \/ schemaDir' = [schemaDir EXCEPT ![schema_path].status = "unreadable"]
       \/ schemaDir' = [schemaDir EXCEPT ![schema_path].content =
                                          IF @ = EventSchema THEN PlaceSchema
                                          ELSE EventSchema]
    /\ UNCHANGED << source, op, schema_name, pc, available_schemas, schema_path,
                    opened, csv_data, i, transcoded, validated, validation_results,
                    raised, message, loaded, report >>
    /\ UNCHANGED tplVars
    /\ UNCHANGED pvVars
    /\ UNCHANGED tfVars

(***************************************************************************)
(* generate_template: the call is one straight line, modelled as one       *)
(* action.                                                                 *)
(***************************************************************************)
\* _generate_csv_template (lines 201-217) after _load_schema
TemplateLoaded(l) ==
    IF ~l.ok
    THEN /\ Raise(l.exc, <<>>)
         /\ UNCHANGED tplVars
    ELSE /\ flattened_schema' = _flatten_schema(l.schema)
         /\ headers' = _schema_to_csv_headers(flattened_schema')
         /\ sample_row' = _create_sample_row(headers', schema_name)
         /\ template' = WriteTemplate(headers', sample_row')
         /\ pc' = "done"
         /\ UNCHANGED << raised, message >>

\* lines 230-239
GenerateTemplate ==
    /\ pc = "start"
    /\ op = "template"
    /\ available_schemas' = get_available_schemas(schemaDir)
    /\ IF ~Known(schema_name, available_schemas')
       THEN /\ Raise("ValueError", UnknownSchemaMessage(schema_name, available_schemas'))
            /\ UNCHANGED schema_path
            /\ UNCHANGED tplVars
       ELSE /\ schema_path' = PathOf(schema_name, available_schemas')
            /\ TemplateLoaded(load_schema(schemaDir[schema_path']))
    /\ UNCHANGED << schemaDir, source, op, schema_name, opened, csv_data, i, transcoded,
                    validated, validation_results >>
    /\ UNCHANGED pvVars
    /\ UNCHANGED tfVars
    /\ UNCHANGED << loaded, report >>

Next ==
    \/ ImportResolve
    \/ ImportRead
    \/ ImportRow
    \/ ImportReturn
    \/ GetValidationReport
    \/ SchemaFileChanges
    \/ GenerateTemplate

Spec == Init /\ [][Next]_vars

(***************************************************************************)
(* generate_template over generated schemas: the schema directory holds    *)
(* one file, whose schema is drawn from the root objects of at most        *)
(* MaxProps properties.                                                    *)
(***************************************************************************)
SchemaPropNames == {kA, kB, kAB, openingHours, kCategoryTags}

\* the item object of an array of objects: a leaf and a nested object
ItemObject ==
    Object(<< << kB, Leaf("string") >>,
              << kSize, Object(<< << kW, Leaf("integer") >> >>, <<>>) >> >>,
           <<>>)

SchemaNodes ==
    { Leaf("string"),
      Object(<< << kB, Leaf("integer") >> >>, <<>>),
      Object(<< << kA, Object(<< << kB, Leaf("boolean") >> >>, <<>>) >> >>, <<>>),
      Array(Leaf("integer")),
      Array(Leaf("string")),
      Array(ItemObject),
      Object(<< << kImages, Array(ItemObject) >> >>, <<>>) }

\* 'properties' is a JSON object: its names are distinct
SchemaChoices ==
    {Object(props, <<>>) :
        props \in {r \in SeqsUpTo(SchemaPropNames \X SchemaNodes, MaxProps) :
                      \A j \in 1..Len(r) : \A k \in 1..Len(r) :
                          j # k => r[j][1] # r[k][1]}}

InitTpl ==
    /\ op = "template"
    /\ schema_name \in {sEvent, sPlace}
    /\ schemaDir \in {<< [stem |-> schema_name, ext |-> "json", status |-> "ok",
                           content |-> sch] >> : sch \in SchemaChoices}
    /\ source = NoSource
    /\ pc = "start"
    /\ available_schemas = <<>>
    /\ schema_path = 0
    /\ opened = FALSE
    /\ csv_data = <<>>
    /\ i = 0
    /\ transcoded = 0
    /\ validated = 0
    /\ validation_results = EmptyResults
    /\ raised = "none"
    /\ message = <<>>
    /\ flattened_schema = <<>>
    /\ headers = <<>>
    /\ sample_row = <<>>
    /\ template = <<>>
    /\ pv_value = <<>>
    /\ pv_key = <<>>
    /\ pv_result = NoResult
    /\ loaded = <<>>
    /\ report = NoReport
    /\ tf_flat = <<>>
    /\ tf_nested = EmptyDict

NextTpl == GenerateTemplate

SpecTpl == InitTpl /\ [][NextTpl]_vars

(***************************************************************************)
(* process_value on its own: the arguments are drawn from bounded sets and *)
(* the one action applies the function.                                    *)
(***************************************************************************)
PVChars == {"0", "1", "5", ".", ",", "\"", " ", "x", "-"}

PVTokens ==
    { << "t", "r", "u", "e" >>, << "T", "R", "U", "E" >>, << "T", "r", "u", "e" >>,
      << "y", "e", "s" >>, << "Y", "e", "S" >>,
      << "f", "a", "l", "s", "e" >>, << "F", "A", "L", "S", "E" >>,
      << "n", "o" >>, << "N", "o" >>,
      << "x", ",", "y", ",", "z" >>,
      << "\"", "a", ",", "b", "\"", ",", "c" >>,
      << "\"", "a", ",", " ", "b", "\"" >>,
      << "1", "2", ".", "5", "0" >>,
      << "t", "r", "u", "e", ",", "n", "o" >>,
      << "1", "e", "5" >>, << "1", ".", "5", "e", "1" >>, << "1", ".", "5", "E", "-", "1" >>,
      << "1", ".", "e", "1" >>, << "1", "_", "0" >>, << "1", "_", "_", "0" >>,
      << "1", "_", "0", ".", "5" >>, << "+", "5" >>, << "i", "n", "f" >>, << "n", "a", "n" >> }

PVValues == SeqsUpTo(PVChars, MaxLen) \cup PVTokens

PVKeys ==
    { << "c", "a", "t", "e", "g", "o", "r", "y", "T", "a", "g", "s" >>,
      << "p", "l", "a", "i", "n", "F", "i", "e", "l", "d" >>,
      << "I", "D", "S" >>,
      << "c", "o", "u", "n", "t" >>,
      << "p", "e", "r", "f", "o", "r", "m", "e", "r", "N", "a", "m", "e", "s" >>,
      << "F", "e", "a", "t", "u", "r", "e", "s", "2" >> }

InitPV ==
    /\ schemaDir = << >>
    /\ op = "process_value"
    /\ source = NoSource
    /\ schema_name = <<>>
    /\ pc = "idle"
    /\ available_schemas = <<>>
    /\ schema_path = 0
    /\ opened = FALSE
    /\ csv_data = <<>>
    /\ i = 0
    /\ transcoded = 0
    /\ validated = 0
    /\ validation_results = EmptyResults
    /\ raised = "none"
    /\ message = <<>>
    /\ flattened_schema = <<>>
    /\ headers = <<>>
    /\ sample_row = <<>>
    /\ template = <<>>
    /\ pv_value \in PVValues
    /\ pv_key \in PVKeys
    /\ pv_result = NoResult
    /\ loaded = <<>>
    /\ report = NoReport
    /\ tf_flat = <<>>
    /\ tf_nested = EmptyDict

ProcessValue ==
    /\ op = "process_value"
    /\ pv_result = NoResult
    /\ pv_result' = process_value(pv_value, pv_key)
    /\ UNCHANGED << pv_value, pv_key >>
    /\ UNCHANGED pipeVars
    /\ UNCHANGED tfVars

NextPV == ProcessValue

SpecPV == InitPV /\ [][NextPV]_vars

(***************************************************************************)
(* transform_flat_to_nested on its own: the flat row is drawn from the     *)
(* rows of at most MaxCols columns and the one action applies the          *)
(* function.                                                               *)
(***************************************************************************)
TFKeys == {kId, kA, kAB, << "a", ".", "c" >>, << "a", ".", "b", ".", "c" >>}

TFValues == { <<>>, << "5" >>, << "x" >>, << "1" >> }

\* a flat row is a dict: its keys are distinct
FlatRows ==
    {r \in SeqsUpTo(TFKeys \X TFValues, MaxCols) :
        \A j \in 1..Len(r) : \A k \in 1..Len(r) : j # k => r[j][1] # r[k][1]}

InitTF ==
    /\ schemaDir = << >>
    /\ op = "transform"
    /\ source = NoSource
    /\ schema_name = <<>>
    /\ pc = "idle"
    /\ available_schemas = <<>>
    /\ schema_path = 0
    /\ opened = FALSE
    /\ csv_data = <<>>
    /\ i = 0
    /\ transcoded = 0
    /\ validated = 0
    /\ validation_results = EmptyResults
    /\ raised = "none"
    /\ message = <<>>
    /\ flattened_schema = <<>>
    /\ headers = <<>>
    /\ sample_row = <<>>
    /\ template = <<>>
    /\ pv_value = <<>>
    /\ pv_key = <<>>
    /\ pv_result = NoResult
    /\ loaded = <<>>
    /\ report = NoReport
    /\ tf_flat \in FlatRows
    /\ tf_nested = EmptyDict

\* line 82, or the TypeError of line 73, 74 or 77
Transformed(t) ==
    IF t.ok
    THEN /\ tf_nested' = t.tree
         /\ pc' = "done"
         /\ UNCHANGED << raised, message >>
    ELSE /\ Raise("TypeError", <<>>)
         /\ UNCHANGED tf_nested

Transform ==
    /\ op = "transform"
    /\ pc = "idle"
    /\ Transformed(transform_flat_to_nested(tf_flat))
    /\ UNCHANGED tf_flat
    /\ UNCHANGED << schemaDir, source, op, schema_name, available_schemas, schema_path,
                    opened, csv_data, i, transcoded, validated, validation_results,
                    loaded, report >>
    /\ UNCHANGED tplVars
    /\ UNCHANGED pvVars

NextTF == Transform

SpecTF == InitTF /\ [][NextTF]_vars

(***************************************************************************)
(* Properties of the import pipeline.                                      *)
(***************************************************************************)
Returned == pc = "done"
InLoop == pc \in {"loop", "done"}

\* the lines of a source that are not blank
RECURSIVE DataLines(_)
DataLines(lines) ==
    IF lines = <<>> THEN <<>>
    ELSE IF Head(lines) = <<>> THEN DataLines(Tail(lines))
    ELSE << Head(lines) >> \o DataLines(Tail(lines))

\* the number of outcomes of the report that carry the row number n
OutcomesAt(n) ==
    Cardinality({k \in 1..Len(validation_results.valid_items) :
                    validation_results.valid_items[k].row = n})
    + Cardinality({k \in 1..Len(validation_results.invalid_items) :
                    validation_results.invalid_items[k].row = n})

\* C1: a row the validator rejects does not stop the run: once a row has been
\* rejected, the run (the schema files left as they were found) ends only by
\* returning the report, with every data row transcoded and validated.
C1_RejectionNeverStopsRun ==
    (validation_results.invalid > 0 /\ pc \in {"raised", "done"} /\ schemaDir \in SchemaDirs)
        => /\ pc = "done"
           /\ transcoded = Len(csv_data)
           /\ validated = Len(csv_data)

\* C2: a failure while transcoding one row never ends the run: no run of
\* import_and_validate_csv ends with the TypeError of transform_flat_to_nested.
C2_TranscodingNeverAborts ==
    pc = "raised" => raised # "TypeError"

\* C3: in the row loop valid + invalid is the number of rows processed so far
\* and each counter is the length of its bucket; on return valid + invalid =
\* total = the number of data rows of the source.
C3_Tallies ==
    InLoop =>
        /\ validation_results.valid + validation_results.invalid = i
        /\ validated = i
        /\ validation_results.valid = Len(validation_results.valid_items)
        /\ validation_results.invalid = Len(validation_results.invalid_items)
        /\ Returned =>
             /\ validation_results.valid + validation_results.invalid
                    = validation_results.total
             /\ validation_results.total = Len(DataLines(source.lines))

C3_Witness ==
    /\ Returned
    /\ validation_results.valid >= 1
    /\ validation_results.invalid >= 1

\* C4: the data row of 0-based index k - 1 is reported with row number k + 1,
\* and on return every number of 2..total+1 is the row number of exactly one
\* outcome of the two buckets together.
C4_RowNumbers ==
    InLoop =>
        /\ \A k \in 1..i :
             /\ OutcomesAt(k + 1) = 1
             /\ \E o \in {validation_results.valid_items[m] :
                             m \in 1..Len(validation_results.valid_items)}
                       \cup {[row |-> r.row, id |-> r.id, data |-> r.data] :
                                r \in {validation_results.invalid_items[m] :
                                          m \in 1..Len(validation_results.invalid_items)}} :
                    /\ o.row = k + 1
                    /\ o.data = transform_flat_to_nested(csv_data[k]).tree
        /\ \A n \in 0..(MaxRows + 3) : (n < 2 \/ n > i + 1) => OutcomesAt(n) = 0
        /\ Returned => i = validation_results.total

C4_Witness ==
    /\ Returned
    /\ validation_results.total = 2
    /\ OutcomesAt(2) = 1
    /\ OutcomesAt(3) = 1
    /\ csv_data[1] # csv_data[2]

\* C5: along valid_items and along invalid_items the row numbers are strictly
\* increasing.
C5_FileOrder ==
    /\ \A k \in 1..(Len(validation_results.valid_items) - 1) :
          validation_results.valid_items[k].row < validation_results.valid_items[k + 1].row
    /\ \A k \in 1..(Len(validation_results.invalid_items) - 1) :
          validation_results.invalid_items[k].row
              < validation_results.invalid_items[k + 1].row

C5_Witness ==
    /\ Returned
    /\ Len(validation_results.invalid_items) >= 2

\* the schema_name of the call names no *.json file of the schema directory
UnknownName == \A k \in 1..Len(schemaDir) :
                   schemaDir[k].ext = "json" => schemaDir[k].stem # schema_name

\* C6: with an unknown schema name the import ends with the unknown-schema
\* error, the source never opened and no row processed, also when the source
\* is missing; no report is returned.
C6_UnknownSchemaFirst ==
    (op = "import" /\ UnknownName /\ pc # "start")
        => /\ pc = "raised"
           /\ raised = "ValueError"
           /\ message[1] = "Unknown schema: "
           /\ ~opened
           /\ transcoded = 0
           /\ validated = 0
           /\ validation_results = EmptyResults

C6_Witness ==
    /\ op = "import"
    /\ UnknownName
    /\ source.status = "missing"
    /\ pc = "raised"
    /\ raised = "ValueError"

\* the stems of the *.json files of the schema directory, in listing order
RECURSIVE JsonStems(_)
JsonStems(dir) ==
    IF dir = <<>> THEN <<>>
    ELSE IF Head(dir).ext = "json" THEN << Head(dir).stem >> \o JsonStems(Tail(dir))
    ELSE JsonStems(Tail(dir))

\* C7: import_and_validate_csv and generate_template, called with a schema
\* name that is not discovered, raise the error whose message holds the
\* requested name and the list of the available names; called with a
\* discovered name they never raise it.
C7_UnknownSchemaMessage ==
    (op \in {"import", "template"} /\ pc # "start")
        => IF UnknownName
           THEN /\ pc = "raised"
                /\ raised = "ValueError"
                /\ Len(message) = 4
                /\ message[1] = "Unknown schema: "
                /\ message[2] = schema_name
                /\ message[4] = JsonStems(schemaDir)
           ELSE raised # "ValueError"

C7_Witness ==
    /\ op = "template"
    /\ UnknownName
    /\ pc = "raised"
    /\ Len(message) = 4
    /\ Len(message[4]) >= 2

\* C8: a run whose resolved schema file is unreadable or malformed from the
\* start, on a source that can be read, never returns a report and fails
\* before any row is transcoded.
C8_BrokenSchemaFailsFirst ==
    ( /\ op = "import"
      /\ schema_path # 0
      /\ schemaDir \in SchemaDirs
      /\ schemaDir[schema_path].status # "ok"
      /\ pc \in {"loop", "done", "raised"}
      /\ source.status = "ok"
      /\ read_csv_file(source).ok )
        => /\ ~Returned
           /\ transcoded = 0

(***************************************************************************)
(* Properties of process_value, stated without the operators of the model  *)
(* of the function.                                                        *)
(***************************************************************************)
Called == pv_result # NoResult

\* the value is the word, in any mix of upper and lower case
IsWord(v, lower, upper) ==
    /\ Len(v) = Len(lower)
    /\ \A k \in 1..Len(v) : v[k] = lower[k] \/ v[k] = upper[k]

IsTrueToken(v) ==
    \/ IsWord(v, << "t", "r", "u", "e" >>, << "T", "R", "U", "E" >>)
    \/ IsWord(v, << "y", "e", "s" >>, << "Y", "E", "S" >>)
    \/ v = << "1" >>

IsFalseToken(v) ==
    \/ IsWord(v, << "f", "a", "l", "s", "e" >>, << "F", "A", "L", "S", "E" >>)
    \/ IsWord(v, << "n", "o" >>, << "N", "O" >>)
    \/ v = << "0" >>

\* the field names of PVKeys that hold tags, features, names or ids
IndicatorKeys ==
    { << "c", "a", "t", "e", "g", "o", "r", "y", "T", "a", "g", "s" >>,
      << "I", "D", "S" >>,
      << "p", "e", "r", "f", "o", "r", "m", "e", "r", "N", "a", "m", "e", "s" >>,
      << "F", "e", "a", "t", "u", "r", "e", "s", "2" >> }

\* C9: a true token gives True and a false token gives False under every
\* field name, the empty value gives None, and the cells "0" and "1" never
\* come back as integers.
C9_BooleanFirst ==
    Called =>
        /\ pv_value = <<>> => pv_result = NoneVal
        /\ IsTrueToken(pv_value) => pv_result = BoolVal(TRUE)
        /\ IsFalseToken(pv_value) => pv_result = BoolVal(FALSE)
        /\ pv_value \in { << "0" >>, << "1" >> } => pv_result.kind # "int"
        /\ pv_result.kind = "bool" => IsTrueToken(pv_value) \/ IsFalseToken(pv_value)

C9_Witness ==
    /\ Called
    /\ pv_value = << "1" >>
    /\ pv_key = << "I", "D", "S" >>
    /\ pv_result = BoolVal(TRUE)

CommaCount(v) == Cardinality({k \in 1..Len(v) : v[k] = ","})

\* the value between its enclosing double quotes, when it has both
Enclosed(v) == Len(v) >= 2 /\ v[1] = "\"" /\ v[Len(v)] = "\""
Body(v) == IF Enclosed(v) THEN [k \in 1..(Len(v) - 2) |-> v[k + 1]] ELSE v

\* position of the k-th comma of v; 0 for k = 0 and Len(v) + 1 past the last
CommaAt(v, k) ==
    IF k = 0 THEN 0
    ELSE IF k > CommaCount(v) THEN Len(v) + 1
    ELSE CHOOSE p \in 1..Len(v) :
            /\ v[p] = ","
            /\ Cardinality({q \in 1..p : v[q] = ","}) = k

\* the text between the (k-1)-th and the k-th comma, without the blanks around it
PieceTrimmed(v, k) ==
    LET from == CommaAt(v, k - 1) + 1
        to == CommaAt(v, k) - 1
        inked == {p \in from..to : v[p] \notin {" ", "\t"}}
    IN  IF inked = {} THEN <<>>
        ELSE LET first == CHOOSE p \in inked : \A q \in inked : p <= q
                 last == CHOOSE p \in inked : \A q \in inked : q <= p
             IN  [k2 \in 1..(last - first + 1) |-> v[first + k2 - 1]]

\* C10: for a value that is not empty and no boolean token and holds a comma:
\* under a field name with a list indicator the result is the list of the
\* commas + 1 trimmed pieces of the value, the enclosing quotes removed only
\* when the value starts and ends with one; under a field name without
\* indicator the result is the value itself, as a string.
C10_ListCoercion ==
    ( /\ Called
      /\ pv_value # <<>>
      /\ ~IsTrueToken(pv_value)
      /\ ~IsFalseToken(pv_value)
      /\ CommaCount(pv_value) > 0 )
        => IF pv_key \in IndicatorKeys
           THEN /\ pv_result.kind = "list"
                /\ Len(pv_result.items) = CommaCount(pv_value) + 1
                /\ \A k \in 1..Len(pv_result.items) :
                      pv_result.items[k] = PieceTrimmed(Body(pv_value), k)
           ELSE pv_result = StrVal(pv_value)

C10_Witness ==
    /\ Called
    /\ pv_value = << "\"", "a", ",", "b", "\"", ",", "c" >>
    /\ pv_key \in IndicatorKeys
    /\ pv_result.kind = "list"
    /\ pv_result.items = << << "\"", "a" >>, << "b", "\"" >>, << "c" >> >>

(***************************************************************************)
(* Properties of read_csv_file.                                            *)
(***************************************************************************)
\* the cells of a data line that are not the empty string, each under the
\* field name of its column, in column order
RECURSIVE NonEmptyCells(_, _, _)
NonEmptyCells(header, line, k) ==
    IF k > Len(line) THEN <<>>
    ELSE (IF line[k] = <<>> THEN <<>> ELSE << << header[k], line[k] >> >>)
             \o NonEmptyCells(header, line, k + 1)

\* C11: read_csv_file takes the first line as the field names and returns one
\* row per data line, in file order; in each row every cell that is the empty
\* string is absent and every other cell is present under its header with its
\* raw text.
C11_ReadKeepsNonEmptyCells ==
    (op = "import" /\ InLoop) =>
        /\ Len(csv_data) = Len(DataLines(source.lines))
        /\ \A k \in 1..Len(csv_data) :
              csv_data[k] = NonEmptyCells(source.header, DataLines(source.lines)[k], 1)

(***************************************************************************)
(* Properties of transform_flat_to_nested, stated without the operators of *)
(* the model of the function.                                              *)
(***************************************************************************)
\* the nested position a column path of TFKeys names
PathOfKey(key) ==
    CASE key = kId -> << kId >>
      [] key = kA -> << kA >>
      [] key = kAB -> << kA, kB >>
      [] key = << "a", ".", "c" >> -> << kA, << "c" >> >>
      [] key = << "a", ".", "b", ".", "c" >> -> << kA, kB, << "c" >> >>

\* the value process_value gives for a raw text of TFValues
Coerced(raw) ==
    CASE raw = <<>> -> NoneVal
      [] raw = << "5" >> -> IntVal(5)
      [] raw = << "x" >> -> StrVal(<< "x" >>)
      [] raw = << "1" >> -> BoolVal(TRUE)

ColumnPaths(row) == {PathOfKey(row[k][1]) : k \in 1..Len(row)}

\* every pair of the row sits at its nested position, under mappings
PairsPlaced(row, tree) ==
    \A k \in 1..Len(row) :
        /\ PathOfKey(row[k][1]) \in DOMAIN tree
        /\ tree[PathOfKey(row[k][1])] = Coerced(row[k][2])
        /\ \A n \in 1..(Len(PathOfKey(row[k][1])) - 1) :
              /\ SubSeq(PathOfKey(row[k][1]), 1, n) \in DOMAIN tree
              /\ tree[SubSeq(PathOfKey(row[k][1]), 1, n)] = DictVal

\* the keys of the top level of a nested dict
TopKeys(tree) == {p[1] : p \in {q \in DOMAIN tree : Len(q) = 1}}

NoDottedKey(row) == \A k \in 1..Len(row) : Len(PathOfKey(row[k][1])) = 1

\* no column path of the row is a proper dotted prefix of another one
NoPrefixConflict(row) ==
    \A p \in ColumnPaths(row) : \A q \in ColumnPaths(row) :
        ~(Len(p) < Len(q) /\ [n \in 1..Len(p) |-> q[n]] = p)

\* C12 as stated: the nested dict returned for any flat row holds, for every
\* (path, raw) pair of the row, the coerced value at the nested position of
\* the path, and has the key set of the row when no key is dotted.
C12_EveryPairPlaced ==
    (op = "transform" /\ pc = "done") =>
        /\ PairsPlaced(tf_flat, tf_nested)
        /\ NoDottedKey(tf_flat) => TopKeys(tf_nested) = {tf_flat[k][1] : k \in 1..Len(tf_flat)}

\* C12, amended: for a flat row in which no column path is a proper dotted
\* prefix of another, transform_flat_to_nested returns, and the nested dict
\* holds every (path, raw) pair as the coerced value at the nested position of
\* the path, under mappings created on the way and nothing else; with no
\* dotted key the result has the key set of the row.
C12_PairsPlacedWithoutPrefixConflict ==
    (op = "transform" /\ pc # "idle" /\ NoPrefixConflict(tf_flat)) =>
        /\ pc = "done"
        /\ PairsPlaced(tf_flat, tf_nested)
        /\ \A p \in DOMAIN tf_nested :
              \E q \in ColumnPaths(tf_flat) :
                  Len(p) <= Len(q) /\ [n \in 1..Len(p) |-> q[n]] = p
        /\ NoDottedKey(tf_flat) => TopKeys(tf_nested) = {tf_flat[k][1] : k \in 1..Len(tf_flat)}

C12_Witness ==
    /\ op = "transform"
    /\ pc = "done"
    /\ tf_flat = << << << "a", ".", "b", ".", "c" >>, << "5" >> >>, << << "a", ".", "c" >>, << "x" >> >> >>
    /\ tf_nested[<< kA, kB, << "c" >> >>] = IntVal(5)
    /\ tf_nested[<< kA, << "c" >> >>] = StrVal(<< "x" >>)
    /\ tf_nested[<< kA >>] = DictVal

(***************************************************************************)
(* Properties of _flatten_schema and of the template.                      *)
(***************************************************************************)
\* generate_template has returned
Generated == op = "template" /\ pc = "done"

\* the schema the template was generated from
TheSchema == schemaDir[schema_path].content

\* the node still has nested object structure: properties of its own, or
\* items that have properties
HasNestedObject(node) == node.hasProps \/ (node.hasItems /\ node.items.hasProps)

\* C13: every entry of the mapping returned by _flatten_schema maps a dotted
\* string path to a leaf node: no entry maps to a node that still has nested
\* object structure.
C13_OnlyLeaves ==
    Generated =>
        \A k \in 1..Len(flattened_schema) :
            /\ Len(flattened_schema[k][1]) > 0
            /\ ~HasNestedObject(flattened_schema[k][2])

\* the keys of the flattened schema at or under the field openingHours
HoursKeys ==
    {key \in {flattened_schema[k][1] : k \in 1..Len(flattened_schema)} :
        \/ key = openingHours
        \/ /\ Len(key) > Len(openingHours)
           /\ [n \in 1..(Len(openingHours) + 1) |-> key[n]] = openingHours \o << "." >>}

Week ==
    << << "M", "o", "n", "d", "a", "y" >>, << "T", "u", "e", "s", "d", "a", "y" >>,
       << "W", "e", "d", "n", "e", "s", "d", "a", "y" >>,
       << "T", "h", "u", "r", "s", "d", "a", "y" >>, << "F", "r", "i", "d", "a", "y" >>,
       << "S", "a", "t", "u", "r", "d", "a", "y" >>, << "S", "u", "n", "d", "a", "y" >> >>

HoursPath(d, end) == openingHours \o << "." >> \o Week[d] \o << "." >> \o end

\* the root of the schema has an array field openingHours whose item is a leaf
HasHoursArray ==
    \E k \in 1..Len(TheSchema.props) :
        /\ TheSchema.props[k][1] = openingHours
        /\ TheSchema.props[k][2].type = "array"
        /\ TheSchema.props[k][2].hasItems
        /\ ~TheSchema.props[k][2].items.hasProps

\* C14: for a schema with an array field openingHours whose item is a leaf,
\* of whatever type, the flattened schema holds for that field exactly the 14
\* paths openingHours.<Day>.opens and openingHours.<Day>.closes of Monday to
\* Sunday, each a string/time leaf, and no entry at openingHours itself.
C14_OpeningHours ==
    (Generated /\ HasHoursArray) =>
        /\ HoursKeys = {HoursPath(d, << "o", "p", "e", "n", "s" >>) : d \in 1..7}
                           \cup {HoursPath(d, << "c", "l", "o", "s", "e", "s" >>) : d \in 1..7}
        /\ Cardinality(HoursKeys) = 14
        /\ openingHours \notin HoursKeys
        /\ \A k \in 1..Len(flattened_schema) :
              flattened_schema[k][1] \in HoursKeys =>
                  /\ flattened_schema[k][2].type = "string"
                  /\ flattened_schema[k][2].format = "time"
                  /\ ~HasNestedObject(flattened_schema[k][2])

C14_Witness ==
    /\ Generated
    /\ HasHoursArray
    /\ \E k \in 1..Len(TheSchema.props) :
          TheSchema.props[k][1] = openingHours /\ TheSchema.props[k][2].items.type = "integer"
    /\ Len(flattened_schema) = 15

\* the positions of the double quotes of a text
QuotesAt(text) == {p \in 1..Len(text) : text[p] = "\""}

\* the position lies outside double quotes: an even number of quotes precede it
Unquoted(quotes, p) == Cardinality({q \in quotes : q < p}) % 2 = 0

\* the positions of the line breaks that end a line
BreaksAt(text, quotes) == {p \in 1..Len(text) : text[p] = "\n" /\ Unquoted(quotes, p)}

\* the j-th smallest element of a set of numbers
NthOf(S, j) == CHOOSE e \in S : Cardinality({x \in S : x < e}) = j - 1

\* the number of fields of the line text[from..to]: a comma outside quotes
\* ends a field; the empty line has no field
FieldsBetween(text, quotes, from, to) ==
    IF \A p \in from..to : text[p] \in {"\r", "\n"} THEN 0
    ELSE 1 + Cardinality({p \in from..to : text[p] = "," /\ Unquoted(quotes, p)})

FieldCountsIn(text, quotes, breaks) ==
    [j \in 1..Cardinality(breaks) |->
        FieldsBetween(text, quotes,
                      IF j = 1 THEN 1 ELSE NthOf(breaks, j - 1) + 1, NthOf(breaks, j))]

\* the number of fields of each line of a delimited text
FieldCounts(text) == FieldCountsIn(text, QuotesAt(text), BreaksAt(text, QuotesAt(text)))

\* the property names of a schema whose properties are all plain leaves
PlainNames(schema) ==
    [k \in 1..Len(schema.props) |-> schema.props[k][1]]

AllPlain(schema) ==
    \A k \in 1..Len(schema.props) :
        /\ ~schema.props[k][2].hasProps
        /\ ~schema.props[k][2].hasItems
        /\ \A m \in 1..Len(schema.props) :
              m # k => schema.props[m][1] # schema.props[k][1]

Reported == report # NoReport

\* the lines of the report that announce a row
RowLines == {k \in 1..Len(report) : report[k][1] = "Row "}

\* C16: the report gives the total, valid and invalid counts; with no invalid
\* row it ends there, without the section header; otherwise the section
\* 'Invalid Entries' follows, with one 'Row <n> (ID: <id>)' line and one
\* 'Error: <text>' line per invalid outcome, in the order of invalid_items;
\* no valid row is listed.
C16_Report ==
    Reported =>
        /\ report[3] = << "Total rows: ", validation_results.total >>
        /\ report[4] = << "Valid: ", validation_results.valid >>
        /\ report[5] = << "Invalid: ", validation_results.invalid >>
        /\ Cardinality(RowLines) = Len(validation_results.invalid_items)
        /\ \A k \in RowLines :
              \A m \in 1..Len(validation_results.valid_items) :
                  report[k][2] # validation_results.valid_items[m].row
        /\ IF validation_results.invalid = 0
           THEN /\ Len(report) = 6
                /\ \A k \in 1..Len(report) : report[k] # << "Invalid Entries" >>
           ELSE /\ report[7] = << "Invalid Entries" >>
                /\ Len(report) = 8 + 3 * Len(validation_results.invalid_items)
                /\ \A m \in 1..Len(validation_results.invalid_items) :
                      /\ report[6 + 3 * m] =
                            << "Row ", validation_results.invalid_items[m].row,
                               " (ID: ", validation_results.invalid_items[m].id, ")" >>
                      /\ report[7 + 3 * m] =
                            << "Error: ", validation_results.invalid_items[m].error >>

C16_Witness ==
    /\ Reported
    /\ schemaDir \in SchemaDirs
    /\ Len(validation_results.invalid_items) = 1
    /\ Len(validation_results.valid_items) = 2
    /\ Len(report) = 11

\* the outcomes recorded so far, of both buckets
Outcomes ==
    {[row |-> o.row, id |-> o.id, data |-> o.data] :
        o \in {validation_results.valid_items[m] :
                  m \in 1..Len(validation_results.valid_items)}
              \cup {validation_results.invalid_items[m] :
                       m \in 1..Len(validation_results.invalid_items)}}

\* the text of the id cell of a data line, empty when the header has no id column
IdCell(line) ==
    IF \E j \in 1..Len(source.header) : source.header[j] = kId
    THEN line[CHOOSE j \in 1..Len(source.header) : source.header[j] = kId]
    ELSE <<>>

PlainIds ==
    { << "x" >>, << "e", "v", "e", "n", "t", "1", "2", "3" >>,
      << "e", "v", "e", "n", "t", "4", "5", "6" >> }

\* C17: every outcome, valid or invalid, carries the value of the top-level
\* id field of its record when the record has one and 'unknown' otherwise: a
\* row whose id cell is empty (or that has no id column) is reported as
\* 'unknown', a row whose id cell is event123 as event123.
C17_Identifiers ==
    op = "import" =>
        \A o \in Outcomes :
            /\ << kId >> \in DOMAIN o.data => o.id = o.data[<< kId >>]
            /\ << kId >> \notin DOMAIN o.data
                  => o.id = StrVal(<< "u", "n", "k", "n", "o", "w", "n" >>)
            /\ IdCell(DataLines(source.lines)[o.row - 1]) = <<>>
                  => o.id = StrVal(<< "u", "n", "k", "n", "o", "w", "n" >>)
            /\ IdCell(DataLines(source.lines)[o.row - 1]) \in PlainIds
                  => o.id = StrVal(IdCell(DataLines(source.lines)[o.row - 1]))

C17_Witness ==
    /\ Returned
    /\ source = ExampleSource
    /\ schemaDir \in SchemaDirs
    /\ Len(validation_results.valid_items) = 2
    /\ validation_results.valid_items[1].id
          = StrVal(<< "e", "v", "e", "n", "t", "1", "2", "3" >>)
    /\ validation_results.valid_items[2].id
          = StrVal(<< "e", "v", "e", "n", "t", "4", "5", "6" >>)
    /\ validation_results.invalid_items[1].id
          = StrVal(<< "u", "n", "k", "n", "o", "w", "n" >>)

\* C18: within one call of import_and_validate_csv every row is validated
\* against the same schema content, the one loaded first, also when the
\* schema file is replaced or removed while the run is in progress.
C18_OneSchemaPerRun ==
    op = "import" =>
        \A k \in 1..Len(loaded) : loaded[k] = loaded[1]

\* the keys of the flattened schema at or under the path P
KeysUnder(P) ==
    {key \in {flattened_schema[k][1] : k \in 1..Len(flattened_schema)} :
        \/ key = P
        \/ /\ Len(key) > Len(P)
           /\ [n \in 1..(Len(P) + 1) |-> key[n]] = P \o << "." >>}

\* an array property whose item node is an object with properties
IsObjectArray(node) ==
    /\ node.type = "array"
    /\ node.hasItems
    /\ node.items.type = "object"
    /\ node.items.hasProps

\* no property of the root of the schema has a dot in its name
NoDottedName ==
    \A k \in 1..Len(TheSchema.props) :
        \A n \in 1..Len(TheSchema.props[k][1]) : TheSchema.props[k][1][n] # "."

\* the properties of the schema down to the second level, each << path, node >>
PlacedProps ==
    {<< TheSchema.props[k][1], TheSchema.props[k][2] >> : k \in 1..Len(TheSchema.props)}
        \cup UNION {{<< TheSchema.props[k][1] \o << "." >> \o TheSchema.props[k][2].props[m][1],
                        TheSchema.props[k][2].props[m][2] >> :
                         m \in 1..Len(TheSchema.props[k][2].props)} :
                     k \in {n \in 1..Len(TheSchema.props) :
                               TheSchema.props[n][2].type = "object"}}

\* C19: for an array property at path P whose item node is an object with
\* properties (in a schema where no other path can meet P: no property name
\* holds a dot), the flattened schema holds at or under P exactly the entries
\* P.K of the item properties K, each mapped to the node of K as it stands: no
\* entry at P itself, none per index and none below a P.K.
C19_ArrayOfObjects ==
    (Generated /\ NoDottedName) =>
        \A pl \in PlacedProps :
            IsObjectArray(pl[2]) =>
                /\ KeysUnder(pl[1])
                      = {pl[1] \o << "." >> \o pl[2].items.props[m][1] :
                           m \in 1..Len(pl[2].items.props)}
                /\ \A m \in 1..Len(pl[2].items.props) :
                      \E j \in 1..Len(flattened_schema) :
                          flattened_schema[j] =
                              << pl[1] \o << "." >> \o pl[2].items.props[m][1],
                                 pl[2].items.props[m][2] >>

C19_Witness ==
    /\ Generated
    /\ Len(TheSchema.props) = 2
    /\ TheSchema.props[2][1] = kA
    /\ IsObjectArray(TheSchema.props[2][2])
    /\ TheSchema.props[1][1] = kB
    /\ TheSchema.props[1][2].type = "object"
    /\ Len(TheSchema.props[1][2].props) = 1
    /\ IsObjectArray(TheSchema.props[1][2].props[1][2])
    /\ flattened_schema[1][1]
          = << "b", ".", "i", "m", "a", "g", "e", "s", ".", "b" >>
    /\ flattened_schema[Len(flattened_schema)][1] = << "a", ".", "s", "i", "z", "e" >>
    /\ flattened_schema[Len(flattened_schema)][2].hasProps

\* the property named b among the properties, 0 when there is none
IndexOfB(props) ==
    IF \E m \in 1..Len(props) : props[m][1] = kB
    THEN CHOOSE m \in 1..Len(props) : props[m][1] = kB
    ELSE 0

\* the root properties of the schema that flatten to the key a.b: the plain
\* property named a.b, the object a with a plain property b, the array a of
\* objects with a property b
WritesAB(k) ==
    \/ /\ TheSchema.props[k][1] = kAB
       /\ ~TheSchema.props[k][2].hasProps
       /\ ~IsObjectArray(TheSchema.props[k][2])
    \/ /\ TheSchema.props[k][1] = kA
       /\ TheSchema.props[k][2].type = "object"
       /\ IndexOfB(TheSchema.props[k][2].props) # 0
       /\ ~HasNestedObject(TheSchema.props[k][2].props[IndexOfB(TheSchema.props[k][2].props)][2])
    \/ /\ TheSchema.props[k][1] = kA
       /\ IsObjectArray(TheSchema.props[k][2])
       /\ IndexOfB(TheSchema.props[k][2].items.props) # 0

\* the node the k-th root property writes at a.b
NodeForAB(k) ==
    IF TheSchema.props[k][1] = kAB THEN TheSchema.props[k][2]
    ELSE IF TheSchema.props[k][2].type = "object"
    THEN TheSchema.props[k][2].props[IndexOfB(TheSchema.props[k][2].props)][2]
    ELSE TheSchema.props[k][2].items.props[IndexOfB(TheSchema.props[k][2].items.props)][2]

ABWriters == {k \in 1..Len(TheSchema.props) : WritesAB(k)}

\* C20: the keys of the flattened schema are distinct and flattening raises
\* no error; when several schema locations flatten to the key a.b, the entry
\* of a.b holds the node of the location visited last, whole and unmerged.
C20_LastWriteWins ==
    (op = "template" /\ pc # "start") =>
        /\ pc = "done"
        /\ \A j \in 1..Len(flattened_schema) : \A k \in 1..Len(flattened_schema) :
              j # k => flattened_schema[j][1] # flattened_schema[k][1]
        /\ ABWriters # {} =>
              \E j \in 1..Len(flattened_schema) :
                  /\ flattened_schema[j][1] = kAB
                  /\ flattened_schema[j][2]
                        = NodeForAB(CHOOSE k \in ABWriters : \A m \in ABWriters : m <= k)

C20_Witness ==
    /\ Generated
    /\ ABWriters = {1, 2}
    /\ TheSchema.props[1][1] = kA
    /\ NodeForAB(1) = Leaf("integer")
    /\ NodeForAB(2) = Leaf("string")
    /\ flattened_schema = << << kAB, Leaf("string") >> >>

(***************************************************************************)
(* C21: the numeric coercion of process_value.                             *)
(***************************************************************************)
\* the value without the blanks around it
Inked(v) == {p \in 1..Len(v) : v[p] # " "}

TextOf(v) ==
    IF Inked(v) = {} THEN <<>>
    ELSE SubSeq(v, CHOOSE p \in Inked(v) : \A q \in Inked(v) : p <= q,
                   CHOOSE p \in Inked(v) : \A q \in Inked(v) : q <= p)

Minus(t) == t # <<>> /\ t[1] = "-"
BodyOf(t) == IF Minus(t) THEN SubSeq(t, 2, Len(t)) ELSE t

DigitRow == << "0", "1", "2", "3", "4", "5", "6", "7", "8", "9" >>
DigitNumber(c) == (CHOOSE k \in 1..10 : DigitRow[k] = c) - 1

PointsIn(b) == {p \in 1..Len(b) : b[p] = "."}

\* one or more decimal digits
IsWhole(b) == b # <<>> /\ \A p \in 1..Len(b) : \E k \in 1..10 : DigitRow[k] = b[p]

\* decimal digits around exactly one point, at least one digit
IsDecimal(b) ==
    /\ Len(b) >= 2
    /\ Cardinality(PointsIn(b)) = 1
    /\ \A p \in (1..Len(b)) \ PointsIn(b) : \E k \in 1..10 : DigitRow[k] = b[p]

\* the number written by the digits of b, the point left out
RECURSIVE DecimalOf(_)
DecimalOf(b) ==
    IF b = <<>> THEN 0
    ELSE IF b[Len(b)] = "." THEN DecimalOf(SubSeq(b, 1, Len(b) - 1))
    ELSE 10 * DecimalOf(SubSeq(b, 1, Len(b) - 1)) + DigitNumber(b[Len(b)])

FracDigits(b) == Len(b) - (CHOOSE p \in PointsIn(b) : TRUE)

RECURSIVE Scale(_, _)
Scale(n, k) == IF k <= 0 THEN n ELSE Scale(10 * n, k - 1)

SignFactor(t) == IF Minus(t) THEN -1 ELSE 1

\* r is the floating-point number written by the decimal text t
IsFloatOf(r, t) ==
    /\ r = FloatVal(r.n, r.e)
    /\ r.e + FracDigits(BodyOf(t)) >= 0
    /\ Scale(r.n, r.e + FracDigits(BodyOf(t))) = SignFactor(t) * DecimalOf(BodyOf(t))
    /\ IF r.n = 0 THEN r.e = 0 ELSE r.n % 10 # 0

\* what Python's int() and float() make of the texts with an exponent, an
\* underscore, a plus sign or a name of a special float
NumberTexts ==
    << << << "1", "e", "5" >>, StrVal(<< "1", "e", "5" >>) >>,
       << << "1", ".", "5", "e", "1" >>, FloatVal(15, 0) >>,
       << << "1", ".", "5", "E", "-", "1" >>, FloatVal(15, -2) >>,
       << << "1", ".", "e", "1" >>, FloatVal(1, 1) >>,
       << << "1", "_", "0" >>, IntVal(10) >>,
       << << "1", "_", "_", "0" >>, StrVal(<< "1", "_", "_", "0" >>) >>,
       << << "1", "_", "0", ".", "5" >>, FloatVal(105, -1) >>,
       << << "+", "5" >>, IntVal(5) >>,
       << << "i", "n", "f" >>, StrVal(<< "i", "n", "f" >>) >>,
       << << "n", "a", "n" >>, StrVal(<< "n", "a", "n" >>) >> >>

Listed(v) == {k \in 1..Len(NumberTexts) : NumberTexts[k][1] = v}

NumericCase ==
    /\ Called
    /\ pv_value # <<>>
    /\ ~IsTrueToken(pv_value)
    /\ ~IsFalseToken(pv_value)
    /\ ~(CommaCount(pv_value) > 0 /\ pv_key \in IndicatorKeys)

\* C21: process_value returns a value for every string and field name; for a
\* non-empty value that is neither a boolean token nor a list case the result
\* is a float exactly when the value holds a '.' and is a number, an integer
\* exactly when it holds no '.' and is an integer, each with the value the
\* text writes, and otherwise the original string unchanged.
C21_NumericCoercion ==
    /\ raised = "none"
    /\ Called => pv_result.kind \in {"none", "bool", "list", "float", "int", "str"}
    /\ NumericCase =>
         IF Listed(pv_value) # {}
         THEN \A k \in Listed(pv_value) : pv_result = NumberTexts[k][2]
         ELSE IF PointsIn(pv_value) # {}
         THEN IF IsDecimal(BodyOf(TextOf(pv_value)))
              THEN IsFloatOf(pv_result, TextOf(pv_value))
              ELSE pv_result = StrVal(pv_value)
         ELSE IF IsWhole(BodyOf(TextOf(pv_value)))
              THEN pv_result =
                     IntVal(SignFactor(TextOf(pv_value)) * DecimalOf(BodyOf(TextOf(pv_value))))
              ELSE pv_result = StrVal(pv_value)

C21_Witness ==
    /\ NumericCase
    /\ pv_value = << "1", "2", ".", "5", "0" >>
    /\ pv_result = FloatVal(125, -1)

(***************************************************************************)
(* C22: the nested record does not depend on the order of the columns.     *)
(***************************************************************************)
\* the (column path, coerced value) pairs of a row, as a set
PairSet(row) == {<< PathOfKey(row[k][1]), Coerced(row[k][2]) >> : k \in 1..Len(row)}

\* the non-empty prefixes of the column paths of a set of pairs
PathsUnder(pairs) == UNION {{[n \in 1..m |-> pr[1][n]] : m \in 1..Len(pr[1])} : pr \in pairs}

\* the nested record a set of pairs describes: each column path holds its
\* value and each shorter prefix holds a mapping
NestedOf(pairs) ==
    [p \in PathsUnder(pairs) |->
        IF \E pr \in pairs : pr[1] = p THEN (CHOOSE pr \in pairs : pr[1] = p)[2]
        ELSE DictVal]

LeafPaths(tree) == {p \in DOMAIN tree : tree[p].kind # "dict"}

\* the row with its columns visited in the order f
Reordered(row, f) == [k \in 1..Len(row) |-> row[f[k]]]

Orders(n) == {f \in [1..n -> 1..n] : \A j \in 1..n : \E k \in 1..n : f[k] = j}

TransformDone == op = "transform" /\ pc # "idle"

C22_State ==
    (TransformDone /\ NoPrefixConflict(tf_flat)) =>
        /\ pc = "done"
        /\ tf_nested = NestedOf(PairSet(tf_flat))
        /\ \A f \in Orders(Len(tf_flat)) :
              transform_flat_to_nested(Reordered(tf_flat, f)) = [ok |-> TRUE, tree |-> tf_nested]
        /\ LeafPaths(tf_nested) = ColumnPaths(tf_flat)

\* C22: for a flat row in which no column path is a proper dotted prefix of
\* another, transform_flat_to_nested returns the record the set of its pairs
\* describes, the same for every order of the columns; the leaf paths of the
\* record are exactly the column paths of the row; and no step changes the
\* flat row.
C22_OrderIndependent == [](C22_State) /\ [][tf_flat' = tf_flat]_vars

C22_Witness ==
    /\ op = "transform"
    /\ pc = "done"
    /\ tf_flat = << << kAB, << "5" >> >>, << << "a", ".", "c" >>, << "x" >> >> >>
    /\ tf_nested = transform_flat_to_nested(<< << << "a", ".", "c" >>, << "x" >> >>, << kAB, << "5" >> >> >>).tree
    /\ LeafPaths(tf_nested) = { << kA, kB >>, << kA, << "c" >> >> }

(***************************************************************************)
(* C23 and C24: ragged lines, blank lines and row numbers.                 *)
(***************************************************************************)
\* the source has been read, or the reading has failed
ReadOver == op = "import" /\ opened /\ source.status = "ok"

\* C23: a data line with fewer or more cells than the header does not make
\* read_csv_file fail: once a readable source has been read there is one flat
\* row for each of its non-blank lines, the reading has not raised, and the
\* report returned counts every one of them.
C23_RaggedLinesTolerated ==
    ReadOver =>
        /\ raised # "AttributeError"
        /\ Len(csv_data) = Len(DataLines(source.lines))
        /\ Returned => validation_results.total = Len(DataLines(source.lines))

====
